---- MODULE Spec2Model ----
(***************************************************************************)
(* A model of the neuroformats decoding/encoding layer: the FreeSurfer     *)
(* surf (mesh), curv (per-vertex scalar), label, annot (parcellation) and  *)
(* MGH/MGZ (volume) codecs.                                                *)
(*                                                                         *)
(* A file is a sequence of bytes (0..255); a label file is a sequence of   *)
(* one-character strings.  A 32-bit integer is an Int in -2^31..2^31-1; an *)
(* f32 read from or written to a binary file is carried as its bit pattern *)
(* (f32::from_bits / to_bits), again a 32-bit integer.                     *)
(***************************************************************************)
EXTENDS Integers, Sequences, FiniteSets, TLC

VARIABLES
    gz,             \* is_gz_file(path): the file name ends in ".gz"
    file,           \* the content of the file at path
    overflowChecks, \* build profile: TRUE = overflow-checks on (debug), FALSE = wrapping (release);
                    \* read only by the mesh codec, the one with i32 arithmetic on header counts
    pc,             \* position of the running call
    pos,            \* read position of the open byte source
    hdr,            \* the header under construction / returned (parcellation: the
                    \* locals num_vertices and num_colortable_entries of the decoder)
    hdr_res,        \* what the header's from_reader returned: "none", "Ok" or an error kind
    mesh,           \* BrainMesh {vertices, faces}
    data,           \* FsCurv.data; for a volume, FsMghData
    label,          \* FsLabel as a sequence of entries
    hdr_num_entries,\* read_label's local of that name
    outcome,        \* what the call returned: "running", "Ok", an error kind, or "panic"
    pass,           \* 1: decoding the input file; 2: decoding the file the writer produced
    first,          \* the value the first decode returned (kept by the caller for the writer)
    ret,            \* result of the last derived operation on a decoded value
    annot           \* FsAnnot {vertex_indices, vertex_labels, colortable}

vars == <<gz, file, overflowChecks, pc, pos, hdr, hdr_res, mesh, data, label,
          hdr_num_entries, outcome, pass, first, ret, annot>>

----------------------------------------------------------------------------
(* Bounds of the model *)

MaxWords == 6

----------------------------------------------------------------------------
(* Byte-stream primitives *)

\* read_i32 of a big-endian byte source: four bytes, two's complement
I32FromBytes(b1, b2, b3, b4) ==
    (IF b1 >= 128 THEN b1 - 256 ELSE b1) * 16777216 + b2 * 65536 + b3 * 256 + b4

\* write_i32 to a big-endian byte sink (also write_f32 of a value carried as its bits)
I32ToBytes(n) ==
    << (n \div 16777216) % 256, (n \div 65536) % 256, (n \div 256) % 256, n % 256 >>

\* the i32 (or the bits of the f32) stored at bytes p+1 .. p+4 of s
WordAt(s, p) == I32FromBytes(s[p + 1], s[p + 2], s[p + 3], s[p + 4])

\* n consecutive read_i32 / read_f32 calls starting at position p
ReadWords(s, p, n) == [i \in 1..n |-> WordAt(s, p + 4 * (i - 1))]

RECURSIVE Flatten(_)
Flatten(ss) == IF ss = <<>> THEN <<>> ELSE Head(ss) \o Flatten(Tail(ss))

WordsToBytes(ws) == Flatten([i \in 1..Len(ws) |-> I32ToBytes(ws[i])])

\* i32 multiplication by 3 in a build without overflow checks: the product modulo 2^32
WrappingMul3(n) ==
    LET l  == n % 65536
        h  == n \div 65536
        lo == (3 * l) % 65536
        hi == (3 * h + (3 * l) \div 65536) % 65536
    IN  (IF hi >= 32768 THEN hi - 65536 ELSE hi) * 65536 + lo

Mul3Overflows(n) == n > 715827882 \/ n < -715827882

\* `n * 3` on i32: [panic |-> TRUE] with overflow checks, the wrapped product without
Mul3(n, checks) ==
    IF Mul3Overflows(n)
    THEN IF checks THEN [panic |-> TRUE, v |-> 0] ELSE [panic |-> FALSE, v |-> WrappingMul3(n)]
    ELSE [panic |-> FALSE, v |-> 3 * n]

\* interpret_fs_int24
interpret_fs_int24(b1, b2, b3) == b1 * 65536 + b2 * 256 + b3

TRIS_MAGIC_FILE_TYPE_NUMBER == 16777214

\* read_fs_variable_length_string: bytes from position p up to and including the first
\* two consecutive linefeeds, each byte pushed as the char of that code point;
\* an I/O error when the input ends first.  `last` is last_char ('0' = 48 at the start).
RECURSIVE FsVarStringFrom(_, _, _, _)
FsVarStringFrom(s, p, last, acc) ==
    IF p >= Len(s) THEN [ok |-> FALSE, str |-> acc, pos |-> p]
    ELSE LET cur == s[p + 1] IN
         IF last = 10 /\ cur = 10
         THEN [ok |-> TRUE, str |-> Append(acc, cur), pos |-> p + 1]
         ELSE FsVarStringFrom(s, p + 1, cur, Append(acc, cur))

\* last_char starts as '0', not as a linefeed
read_fs_variable_length_string_after_linefeed(s, p) == FsVarStringFrom(s, p, 10, <<>>)

read_fs_variable_length_string(s, p) == FsVarStringFrom(s, p, 48, <<>>)

\* String::as_bytes: the UTF-8 encoding of a string of chars U+0000..U+00FF
Utf8Char(c) == IF c < 128 THEN <<c>> ELSE <<192 + (c \div 64), 128 + (c % 64)>>

Utf8Bytes(str) == Flatten([i \in 1..Len(str) |-> Utf8Char(str[i])])

----------------------------------------------------------------------------
(* Mesh codec: fs_surface.rs *)

None == [none |-> TRUE]
NoMesh == [vertices |-> <<>>, faces |-> <<>>]

\* FsAnnotColortable and FsAnnot before anything is pushed
EmptyColortable ==
    [id |-> <<>>, name |-> <<>>, r |-> <<>>, g |-> <<>>, b |-> <<>>, a |-> <<>>, label |-> <<>>]

NoAnnot == [vertex_indices |-> <<>>, vertex_labels |-> <<>>, colortable |-> EmptyColortable]

\* FsSurfaceHeader::default
FsSurfaceHeaderDefault ==
    [surf_magic |-> <<255, 255, 254>>, info_line |-> <<65, 10, 10>>,
     num_vertices |-> 0, num_faces |-> 0]

\* write_surf: magic, info line as bytes, the two counts, the floats, the indices
write_surf_faces_first(surf) ==
    surf.header.surf_magic
        \o Utf8Bytes(surf.header.info_line)
        \o I32ToBytes(surf.header.num_vertices)
        \o I32ToBytes(surf.header.num_faces)
        \o WordsToBytes(surf.mesh.faces)
        \o WordsToBytes(surf.mesh.vertices)

write_surf(surf) ==
    surf.header.surf_magic
        \o Utf8Bytes(surf.header.info_line)
        \o I32ToBytes(surf.header.num_vertices)
        \o I32ToBytes(surf.header.num_faces)
        \o WordsToBytes(surf.mesh.vertices)
        \o WordsToBytes(surf.mesh.faces)

\* Inputs of the mesh decoder
SurfMagics == { <<255, 255, 254>>, <<254, 255, 255>> }
SurfInfoLines == { <<10, 10>>, <<233, 10, 99, 10, 10>>, <<99, 10>> }
SurfVertexCounts == { 0, 1, 2, -1, 1431655766 }
SurfFaceCounts == { 0, 1, 1431655767 }
PayloadWords == { 1065353216, -2 }
Tails == { <<>>, <<7>> }

WordSeqs(n) == UNION { [1..k -> PayloadWords] : k \in 0..n }

SurfHeaders ==
    { m \o i \o I32ToBytes(nv) \o I32ToBytes(nf) :
        m \in SurfMagics, i \in SurfInfoLines, nv \in SurfVertexCounts, nf \in SurfFaceCounts }

\* the proper prefixes of the byte strings of S: files that end inside the header
Prefixes(S) == UNION { { SubSeq(h, 1, k) : k \in 0..(Len(h) - 1) } : h \in S }

SurfFiles ==
    { h \o WordsToBytes(ws) \o t : h \in SurfHeaders, ws \in WordSeqs(MaxWords), t \in Tails }
    \cup Prefixes(SurfHeaders)

\* gz is whether the file name ends in ".gz": a file of that name holds the gzip
\* stream of a mesh file
InitSurf ==
    /\ \/ gz = FALSE /\ file \in SurfFiles
       \/ gz = TRUE /\ file \in { <<31, 139>> \o c : c \in SurfFiles }
    /\ overflowChecks \in BOOLEAN
    /\ pc = "Start"
    /\ pos = 0
    /\ hdr = FsSurfaceHeaderDefault
    /\ hdr_res = "none"
    /\ mesh = NoMesh
    /\ data = <<>>
    /\ label = <<>>
    /\ hdr_num_entries = 0
    /\ outcome = "running"
    /\ pass = 1
    /\ first = None
    /\ ret = None
    /\ annot = NoAnnot

\* FsSurfaceHeader::from_reader, the three read_u8 of the magic
SurfReadMagic ==
    /\ pc = "Start"
    /\ IF pos + 3 <= Len(file)
       THEN /\ hdr' = [hdr EXCEPT !.surf_magic = SubSeq(file, pos + 1, pos + 3)]
            /\ pos' = pos + 3
            /\ pc' = "MagicRead"
            /\ UNCHANGED hdr_res
       ELSE /\ hdr_res' = "Io"
            /\ pc' = "HeaderReturned"
            /\ UNCHANGED <<hdr, pos>>
    /\ UNCHANGED <<gz, file, overflowChecks, mesh, data, label, hdr_num_entries,
                   outcome, pass, first, ret>>
    /\ UNCHANGED annot

\* FsSurfaceHeader::from_reader, the info line
SurfReadInfoLine ==
    /\ pc = "MagicRead"
    /\ LET r == read_fs_variable_length_string(file, pos) IN
       IF r.ok
       THEN /\ hdr' = [hdr EXCEPT !.info_line = r.str]
            /\ pos' = r.pos
            /\ pc' = "InfoLineRead"
            /\ UNCHANGED hdr_res
       ELSE /\ hdr_res' = "Io"
            /\ pc' = "HeaderReturned"
            /\ UNCHANGED <<hdr, pos>>
    /\ UNCHANGED <<gz, file, overflowChecks, mesh, data, label, hdr_num_entries,
                   outcome, pass, first, ret>>
    /\ UNCHANGED annot

\* FsSurfaceHeader::from_reader, the two counts
SurfReadDimensions ==
    /\ pc = "InfoLineRead"
    /\ IF pos + 8 <= Len(file)
       THEN /\ hdr' = [hdr EXCEPT !.num_vertices = WordAt(file, pos),
                                  !.num_faces = WordAt(file, pos + 4)]
            /\ pos' = pos + 8
            /\ pc' = "DimensionsRead"
            /\ UNCHANGED hdr_res
       ELSE /\ hdr_res' = "Io"
            /\ pc' = "HeaderReturned"
            /\ UNCHANGED <<hdr, pos>>
    /\ UNCHANGED <<gz, file, overflowChecks, mesh, data, label, hdr_num_entries,
                   outcome, pass, first, ret>>
    /\ UNCHANGED annot

\* FsSurfaceHeader::from_reader, the magic check after the whole header is read
SurfMagicOk(m) == interpret_fs_int24(m[1], m[2], m[3]) = TRIS_MAGIC_FILE_TYPE_NUMBER

SurfCheckMagic ==
    /\ pc = "DimensionsRead"
    /\ hdr_res' = IF SurfMagicOk(hdr.surf_magic) THEN "Ok" ELSE "InvalidFsSurfaceFormat"
    /\ pc' = "HeaderReturned"
    /\ UNCHANGED <<gz, file, overflowChecks, pos, hdr, mesh, data, label, hdr_num_entries,
                   outcome, pass, first, ret>>
    /\ UNCHANGED annot

\* FsSurface::from_file: FsSurfaceHeader::from_reader(&mut file).unwrap()
SurfUnwrapHeader ==
    /\ pc = "HeaderReturned"
    /\ IF hdr_res = "Ok"
       THEN pc' = "HeaderOk" /\ UNCHANGED outcome
       ELSE pc' = "Done" /\ outcome' = "panic"
    /\ UNCHANGED <<gz, file, overflowChecks, pos, hdr, hdr_res, mesh, data, label,
                   hdr_num_entries, pass, first, ret>>
    /\ UNCHANGED annot

\* Vec::with_capacity(n as usize) for an i32 n: a negative n casts to a capacity
\* beyond isize::MAX and panics with "capacity overflow"
CapacityOverflows(n) == n < 0

\* FsSurface::mesh_from_reader, the vertex loop: 1..=hdr.num_vertices * 3 reads,
\* each read_f32().unwrap()
SurfReadVertices ==
    /\ pc = "HeaderOk"
    /\ LET m == Mul3(hdr.num_vertices, overflowChecks) IN
       IF m.panic \/ CapacityOverflows(m.v) \/ pos + 4 * m.v > Len(file)
       THEN /\ pc' = "Done"
            /\ outcome' = "panic"
            /\ UNCHANGED <<mesh, pos>>
       ELSE /\ mesh' = [mesh EXCEPT !.vertices = ReadWords(file, pos, m.v)]
            /\ pos' = pos + 4 * m.v
            /\ pc' = "VerticesRead"
            /\ UNCHANGED outcome
    /\ UNCHANGED <<gz, file, overflowChecks, hdr, hdr_res, data, label, hdr_num_entries,
                   pass, first, ret>>
    /\ UNCHANGED annot

\* FsSurface::mesh_from_reader, the face loop, and from_file's Ok(surf)
SurfReadFaces ==
    /\ pc = "VerticesRead"
    /\ LET m == Mul3(hdr.num_faces, overflowChecks) IN
       IF m.panic \/ CapacityOverflows(m.v) \/ pos + 4 * m.v > Len(file)
       THEN /\ outcome' = "panic"
            /\ UNCHANGED <<mesh, pos>>
       ELSE /\ mesh' = [mesh EXCEPT !.faces = ReadWords(file, pos, m.v)]
            /\ pos' = pos + 4 * m.v
            /\ outcome' = "Ok"
    /\ pc' = "Done"
    /\ UNCHANGED <<gz, file, overflowChecks, hdr, hdr_res, data, label, hdr_num_entries,
                   pass, first, ret>>
    /\ UNCHANGED annot

\* the caller of a_surface_file_can_be_written_and_reread: write_surf(path, &surf)
\* on the decoded value, then read_surf(path) again
SurfWriteAndReread ==
    /\ pc = "Done" /\ outcome = "Ok" /\ pass = 1
    /\ first' = [header |-> hdr, mesh |-> mesh]
    /\ file' = write_surf([header |-> hdr, mesh |-> mesh])
    /\ pass' = 2
    /\ pc' = "Start"
    /\ pos' = 0
    /\ hdr' = FsSurfaceHeaderDefault
    /\ hdr_res' = "none"
    /\ mesh' = NoMesh
    /\ outcome' = "running"
    /\ UNCHANGED <<gz, overflowChecks, data, label, hdr_num_entries, ret>>
    /\ UNCHANGED annot

NextSurf ==
    \/ SurfReadMagic
    \/ SurfReadInfoLine
    \/ SurfReadDimensions
    \/ SurfCheckMagic
    \/ SurfUnwrapHeader
    \/ SurfReadVertices
    \/ SurfReadFaces
    \/ SurfWriteAndReread

SpecSurf == InitSurf /\ [][NextSurf]_vars

----------------------------------------------------------------------------
(* Properties of the mesh codec *)

SurfReturned == pc = "Done"

\* the length of the header of a decoded surf file: magic, info line, two counts
SurfHeaderLen == 3 + Len(hdr.info_line) + 8

\* C1: whenever the first three bytes b1,b2,b3 of the input do not give
\* (b1<<16)|(b2<<8)|b3 = 16777214, read_surf returns the InvalidFormat error kind
\* through its Result, whatever follows the magic.
C1_BadMagicReturnsInvalidFormat ==
    (SurfReturned /\ pass = 1 /\ Len(file) >= 3
        /\ file[1] * 65536 + file[2] * 256 + file[3] # 16777214)
    => outcome = "InvalidFsSurfaceFormat"

\* C2: read_surf of the file write_surf produced from a decoded mesh succeeds and
\* yields the same header counts and the same vertex and face sequences.
C2_SurfRoundTrip ==
    (SurfReturned /\ pass = 2)
    => /\ outcome = "Ok"
       /\ hdr.num_vertices = first.header.num_vertices
       /\ hdr.num_faces = first.header.num_faces
       /\ mesh.vertices = first.mesh.vertices
       /\ mesh.faces = first.mesh.faces

\* C2 witness: a re-read mesh with vertices and faces whose info line held a
\* non-ASCII byte (the written info line is not the bytes that were read)
C2_Witness ==
    /\ SurfReturned /\ pass = 2 /\ outcome = "Ok"
    /\ Len(mesh.vertices) > 0 /\ Len(mesh.faces) > 0
    /\ mesh.vertices # mesh.faces
    /\ hdr.info_line # first.header.info_line

\* C3: a successful decode with counts V and F yields exactly 3*V floats and 3*F
\* integers, the floats taken from the bytes right after the header and the
\* integers from the bytes right after the floats.
C3_SurfPayloadLengths ==
    (SurfReturned /\ outcome = "Ok")
    => /\ Len(mesh.vertices) % 3 = 0
       /\ Len(mesh.vertices) \div 3 = hdr.num_vertices
       /\ Len(mesh.faces) % 3 = 0
       /\ Len(mesh.faces) \div 3 = hdr.num_faces
       /\ \A i \in 1..Len(mesh.vertices) :
             mesh.vertices[i] = WordAt(file, SurfHeaderLen + 4 * (i - 1))
       /\ \A j \in 1..Len(mesh.faces) :
             mesh.faces[j] = WordAt(file, SurfHeaderLen + 4 * Len(mesh.vertices) + 4 * (j - 1))

----------------------------------------------------------------------------
(* Transparent decompression *)

\* flate2's GzDecoder over the bytes of a file: a gzip member (its magic 1f 8b,
\* then the deflated content, modelled as stored) reads as its content; anything
\* else gives an I/O error on the first read
GzDecoder(bytes) ==
    IF Len(bytes) >= 2 /\ bytes[1] = 31 /\ bytes[2] = 139
    THEN [ok |-> TRUE, bytes |-> SubSeq(bytes, 3, Len(bytes))]
    ELSE [ok |-> FALSE, bytes |-> <<>>]

GzEncode(bytes) == <<31, 139>> \o bytes

\* the byte source from_file reads: `if gz { GzDecoder::new(file) } else { file }`
ByteSource(f, g) == IF g THEN GzDecoder(f) ELSE [ok |-> TRUE, bytes |-> f]

----------------------------------------------------------------------------
(* Scalar-field codec: fs_curv.rs *)

CURV_MAGIC_CODE_U8 == 255

\* FsCurvHeader::default
FsCurvHeaderDefault ==
    [curv_magic |-> <<255, 255, 255>>, num_vertices |-> 0, num_faces |-> 0,
     num_values_per_vertex |-> 1]

\* write_curv: three magic bytes, the three header integers, the values
write_curv_counts_swapped(curv) ==
    <<CURV_MAGIC_CODE_U8, CURV_MAGIC_CODE_U8, CURV_MAGIC_CODE_U8>>
        \o I32ToBytes(curv.header.num_faces)
        \o I32ToBytes(curv.header.num_vertices)
        \o I32ToBytes(curv.header.num_values_per_vertex)
        \o WordsToBytes(curv.data)

write_curv(curv) ==
    <<CURV_MAGIC_CODE_U8, CURV_MAGIC_CODE_U8, CURV_MAGIC_CODE_U8>>
        \o I32ToBytes(curv.header.num_vertices)
        \o I32ToBytes(curv.header.num_faces)
        \o I32ToBytes(curv.header.num_values_per_vertex)
        \o WordsToBytes(curv.data)

\* FsCurv::curv_data_from_reader on a fresh byte source: 15 header bytes read and
\* dropped, then hdr.num_vertices times read_f32().unwrap()
curv_data_from_reader_no_skip(src, num_vertices) ==
    IF \/ ~src.ok
       \/ Len(src.bytes) < 15
       \/ CapacityOverflows(num_vertices)
       \/ 4 * num_vertices > Len(src.bytes)
    THEN [panic |-> TRUE, data |-> <<>>]
    ELSE [panic |-> FALSE, data |-> ReadWords(src.bytes, 0, num_vertices)]

curv_data_from_reader(src, num_vertices) ==
    IF \/ ~src.ok
       \/ Len(src.bytes) < 15
       \/ CapacityOverflows(num_vertices)
       \/ (Len(src.bytes) - 15) \div 4 < num_vertices
    THEN [panic |-> TRUE, data |-> <<>>]
    ELSE [panic |-> FALSE, data |-> ReadWords(src.bytes, 15, num_vertices)]

\* Inputs of the scalar-field decoder
CurvMagics == { <<255, 255, 255>>, <<255, 255, 254>>, <<0, 255, 255>> }
CurvVertexCounts == { 0, 1, 2, 3, -1 }
CurvFaceCounts == { 0, 7 }
CurvValuesPerVertex == { 1, 2 }

CurvHeaders ==
    { m \o I32ToBytes(nv) \o I32ToBytes(nf) \o I32ToBytes(k) :
        m \in CurvMagics, nv \in CurvVertexCounts, nf \in CurvFaceCounts,
        k \in CurvValuesPerVertex }

CurvContents ==
    { h \o WordsToBytes(ws) \o t : h \in CurvHeaders, ws \in WordSeqs(MaxWords), t \in Tails }
    \cup Prefixes(CurvHeaders)

CurvFiles == CurvContents \cup { GzEncode(c) : c \in CurvContents }

InitCurv ==
    /\ gz \in BOOLEAN
    /\ file \in CurvFiles
    /\ overflowChecks = TRUE
    /\ pc = "Start"
    /\ pos = 0
    /\ hdr = FsCurvHeaderDefault
    /\ hdr_res = "none"
    /\ mesh = NoMesh
    /\ data = <<>>
    /\ label = <<>>
    /\ hdr_num_entries = 0
    /\ outcome = "running"
    /\ pass = 1
    /\ first = None
    /\ ret = None
    /\ annot = NoAnnot

\* FsCurvHeader::from_file opening the byte source, and from_reader's three
\* read_u8 of the magic
CurvReadMagic ==
    /\ pc = "Start"
    /\ LET src == ByteSource(file, gz) IN
       IF src.ok /\ 3 <= Len(src.bytes)
       THEN /\ hdr' = [hdr EXCEPT !.curv_magic = SubSeq(src.bytes, 1, 3)]
            /\ pos' = 3
            /\ pc' = "MagicRead"
            /\ UNCHANGED hdr_res
       ELSE /\ hdr_res' = "Io"
            /\ pc' = "HeaderReturned"
            /\ UNCHANGED <<hdr, pos>>
    /\ UNCHANGED <<gz, file, overflowChecks, mesh, data, label, hdr_num_entries,
                   outcome, pass, first, ret>>
    /\ UNCHANGED annot

\* FsCurvHeader::from_reader, the three read_i32
CurvReadCounts ==
    /\ pc = "MagicRead"
    /\ LET src == ByteSource(file, gz) IN
       IF pos + 12 <= Len(src.bytes)
       THEN /\ hdr' = [hdr EXCEPT !.num_vertices = WordAt(src.bytes, pos),
                                  !.num_faces = WordAt(src.bytes, pos + 4),
                                  !.num_values_per_vertex = WordAt(src.bytes, pos + 8)]
            /\ pos' = pos + 12
            /\ pc' = "CountsRead"
            /\ UNCHANGED hdr_res
       ELSE /\ hdr_res' = "Io"
            /\ pc' = "HeaderReturned"
            /\ UNCHANGED <<hdr, pos>>
    /\ UNCHANGED <<gz, file, overflowChecks, mesh, data, label, hdr_num_entries,
                   outcome, pass, first, ret>>
    /\ UNCHANGED annot

\* FsCurvHeader::from_reader, the magic check after the whole header is read
CurvMagicOk(m) ==
    m[1] = CURV_MAGIC_CODE_U8 /\ m[2] = CURV_MAGIC_CODE_U8 /\ m[3] = CURV_MAGIC_CODE_U8

CurvCheckMagic ==
    /\ pc = "CountsRead"
    /\ hdr_res' = IF CurvMagicOk(hdr.curv_magic) THEN "Ok" ELSE "InvalidCurvFormat"
    /\ pc' = "HeaderReturned"
    /\ UNCHANGED <<gz, file, overflowChecks, pos, hdr, mesh, data, label, hdr_num_entries,
                   outcome, pass, first, ret>>
    /\ UNCHANGED annot

\* FsCurv::from_file: `FsCurvHeader::from_file(path)?`, the header's byte source dropped
CurvHeaderReturned ==
    /\ pc = "HeaderReturned"
    /\ IF hdr_res = "Ok"
       THEN pc' = "HeaderOk" /\ UNCHANGED outcome
       ELSE pc' = "Done" /\ outcome' = hdr_res
    /\ pos' = 0
    /\ UNCHANGED <<gz, file, overflowChecks, hdr, hdr_res, mesh, data, label,
                   hdr_num_entries, pass, first, ret>>
    /\ UNCHANGED annot

\* FsCurv::from_file: the file opened a second time, curv_data_from_reader, Ok(curv)
CurvReadData ==
    /\ pc = "HeaderOk"
    /\ LET r == curv_data_from_reader(ByteSource(file, gz), hdr.num_vertices) IN
       IF r.panic
       THEN outcome' = "panic" /\ UNCHANGED <<data, pos>>
       ELSE /\ data' = r.data
            /\ pos' = 15 + 4 * Len(r.data)
            /\ outcome' = "Ok"
    /\ pc' = "Done"
    /\ UNCHANGED <<gz, file, overflowChecks, hdr, hdr_res, mesh, label, hdr_num_entries,
                   pass, first, ret>>
    /\ UNCHANGED annot

\* the caller of a_curv_file_can_be_written_and_reread: write_curv(path, &curv) on
\* the decoded value at an output path of the caller's choice, then read_curv(path)
CurvWriteAndReread ==
    /\ pc = "Done" /\ outcome = "Ok" /\ pass = 1
    /\ \E out_gz \in BOOLEAN : gz' = out_gz
    /\ first' = [header |-> hdr, data |-> data]
    /\ file' = write_curv([header |-> hdr, data |-> data])
    /\ pass' = 2
    /\ pc' = "Start"
    /\ pos' = 0
    /\ hdr' = FsCurvHeaderDefault
    /\ hdr_res' = "none"
    /\ data' = <<>>
    /\ outcome' = "running"
    /\ UNCHANGED <<overflowChecks, mesh, label, hdr_num_entries, ret>>
    /\ UNCHANGED annot

NextCurv ==
    \/ CurvReadMagic
    \/ CurvReadCounts
    \/ CurvCheckMagic
    \/ CurvHeaderReturned
    \/ CurvReadData
    \/ CurvWriteAndReread

SpecCurv == InitCurv /\ [][NextCurv]_vars

----------------------------------------------------------------------------
(* Properties of the scalar-field codec *)

CurvReturned == pc = "Done"

\* the (decompressed) stream read_curv decodes
CurvStream == ByteSource(file, gz)

\* C4: a curv input whose three magic bytes are not all 255 makes read_curv fail
\* with InvalidFormat whatever follows the magic; with magic 255,255,255 the next
\* three big-endian integers are the vertex count, face count and values per vertex.
C4_CurvMagicAndCounts ==
    (CurvReturned /\ pass = 1 /\ CurvStream.ok /\ Len(CurvStream.bytes) >= 3)
    => LET b == CurvStream.bytes IN
       /\ ~(b[1] = 255 /\ b[2] = 255 /\ b[3] = 255) => outcome = "InvalidCurvFormat"
       /\ (b[1] = 255 /\ b[2] = 255 /\ b[3] = 255 /\ Len(b) >= 15 /\ hdr_res = "Ok")
            => /\ hdr.num_vertices = WordAt(b, 3)
               /\ hdr.num_faces = WordAt(b, 7)
               /\ hdr.num_values_per_vertex = WordAt(b, 11)

\* C5: a successful curv decode holds exactly header.num_vertices values, value i
\* (from 0) being the float at byte offset 15 + 4*i of the decompressed stream.
C5_CurvData ==
    (CurvReturned /\ outcome = "Ok")
    => /\ Len(data) = hdr.num_vertices
       /\ 15 + 4 * Len(data) <= Len(CurvStream.bytes)
       /\ \A i \in 1..Len(data) : data[i] = WordAt(CurvStream.bytes, 15 + 4 * (i - 1))

\* C5 witness: a decode of a compressed file that returned three values, not all equal
C5_Witness ==
    /\ CurvReturned /\ outcome = "Ok" /\ pass = 1 /\ gz
    /\ Len(data) = 3 /\ data[1] # data[3]

\* C6 as stated: read_curv after write_curv succeeds and agrees with the written
\* value, for every output path.
C6_CurvRoundTripAnyPath ==
    (CurvReturned /\ pass = 2)
    => /\ outcome = "Ok"
       /\ hdr.num_vertices = first.header.num_vertices
       /\ hdr.num_faces = first.header.num_faces
       /\ hdr.num_values_per_vertex = first.header.num_values_per_vertex
       /\ data = first.data

\* C6 amended: read_curv after write_curv succeeds and yields the same three header
\* counts and the same values, for every output path whose name does not end in ".gz".
C6_CurvRoundTrip ==
    (CurvReturned /\ pass = 2 /\ ~gz)
    => /\ outcome = "Ok"
       /\ hdr.num_vertices = first.header.num_vertices
       /\ hdr.num_faces = first.header.num_faces
       /\ hdr.num_values_per_vertex = first.header.num_values_per_vertex
       /\ data = first.data

\* C6 witness: a re-read of two or more values from a path without ".gz"
C6_Witness ==
    /\ CurvReturned /\ pass = 2 /\ ~gz /\ outcome = "Ok"
    /\ Len(data) >= 2
    /\ hdr.num_faces # hdr.num_vertices

----------------------------------------------------------------------------
(* Label codec: fs_label.rs *)
(* A label file is a sequence of one-character strings.  An f32 of a label is   *)
(* [nan |-> TRUE, v |-> 0] or [nan |-> FALSE, v |-> n] for the float equal to   *)
(* the integer n.                                                               *)

MaxLines == 3
MaxTotal == 3

NaN == [nan |-> TRUE, v |-> 0]
F32(n) == [nan |-> FALSE, v |-> n]

\* `a != b` on f32: a NaN differs from everything, itself included
F32Ne(a, b) == a.nan \/ b.nan \/ a.v # b.v

\* BufRead::lines: the text split at linefeeds; a last line needs no linefeed
RECURSIVE LinesFrom(_, _, _)
LinesFrom(f, i, cur) ==
    IF i > Len(f) THEN (IF cur = <<>> THEN <<>> ELSE <<cur>>)
    ELSE IF f[i] = "\n" THEN <<cur>> \o LinesFrom(f, i + 1, <<>>)
    ELSE LinesFrom(f, i + 1, Append(cur, f[i]))

Lines(f) == LinesFrom(f, 1, <<>>)

\* str::split_whitespace: the maximal runs of non-blank characters
RECURSIVE SplitFrom(_, _, _)
SplitFrom(l, i, cur) ==
    IF i > Len(l) THEN (IF cur = <<>> THEN <<>> ELSE <<cur>>)
    ELSE IF l[i] = " "
         THEN (IF cur = <<>> THEN <<>> ELSE <<cur>>) \o SplitFrom(l, i + 1, <<>>)
         ELSE SplitFrom(l, i + 1, Append(cur, l[i]))

split_whitespace(l) == SplitFrom(l, 1, <<>>)

Digits == {"0", "1", "2", "3", "4", "5", "6", "7", "8", "9"}

DigitValue(c) ==
    CASE c = "0" -> 0 [] c = "1" -> 1 [] c = "2" -> 2 [] c = "3" -> 3 [] c = "4" -> 4
      [] c = "5" -> 5 [] c = "6" -> 6 [] c = "7" -> 7 [] c = "8" -> 8 [] c = "9" -> 9

RECURSIVE DecimalValue(_)
DecimalValue(ds) ==
    IF ds = <<>> THEN 0
    ELSE 10 * DecimalValue(SubSeq(ds, 1, Len(ds) - 1)) + DigitValue(ds[Len(ds)])

\* str::parse::<i32> on the tokens of the model (at most 9 digits, so no overflow):
\* an optional sign, then one or more digits, nothing else
ParseI32(t) ==
    LET signed == t # <<>> /\ t[1] \in {"-", "+"}
        ds     == IF signed THEN Tail(t) ELSE t
    IN  IF ds # <<>> /\ Len(ds) <= 9 /\ \A i \in 1..Len(ds) : ds[i] \in Digits
        THEN [ok |-> TRUE,
              v |-> IF signed /\ t[1] = "-" THEN 0 - DecimalValue(ds) ELSE DecimalValue(ds)]
        ELSE [ok |-> FALSE, v |-> 0]

\* str::parse::<f32> on the tokens of the model: "NaN", or an integer literal
ParseF32(t) ==
    IF t = <<"N", "a", "N">> THEN [ok |-> TRUE, v |-> NaN]
    ELSE LET r == ParseI32(t) IN
         IF r.ok THEN [ok |-> TRUE, v |-> F32(r.v)] ELSE [ok |-> FALSE, v |-> NaN]

EmptyLabel ==
    [vertex_index |-> <<>>, coord1 |-> <<>>, coord2 |-> <<>>, coord3 |-> <<>>, value |-> <<>>]

\* read_label, the body of the loop for a line at index >= 2: five tokens taken
\* with next().unwrap() and parsed with expect(), each pushed to its vector
ParseDataLine(l) ==
    LET ts == split_whitespace(l) IN
    IF Len(ts) < 5 THEN [ok |-> FALSE]
    ELSE LET i == ParseI32(ts[1])
             x == ParseF32(ts[2])
             y == ParseF32(ts[3])
             z == ParseF32(ts[4])
             w == ParseF32(ts[5])
         IN  IF i.ok /\ x.ok /\ y.ok /\ z.ok /\ w.ok
             THEN [ok |-> TRUE, vertex_index |-> i.v, coord1 |-> x.v, coord2 |-> y.v,
                   coord3 |-> z.v, value |-> w.v]
             ELSE [ok |-> FALSE]

\* read_label: `hdr_num_entries as usize != label.vertex_index.len()`
LabelCountMismatchOnlyIfMore(num_entries, len) == num_entries > len

LabelCountMismatch(num_entries, len) == num_entries < 0 \/ num_entries # len

\* FsLabel::is_binary, the loop from entry idx on
RECURSIVE IsBinaryFrom(_, _)
IsBinaryFrom(value, idx) ==
    IF idx > Len(value) THEN TRUE
    ELSE IF idx > 1 /\ F32Ne(value[idx], value[1]) THEN FALSE
    ELSE IsBinaryFrom(value, idx + 1)

is_binary_skipping_second(l) ==
    IF l.value = <<>> THEN [panic |-> TRUE, v |-> FALSE]
    ELSE [panic |-> FALSE,
          v |-> \A idx \in 3..Len(l.value) : ~F32Ne(l.value[idx], l.value[1])]

is_binary(l) ==
    IF l.value = <<>> THEN [panic |-> TRUE, v |-> FALSE]
    ELSE [panic |-> FALSE, v |-> IsBinaryFrom(l.value, 1)]

\* `v[i as usize]` for an i32 i on a vector of length n panics unless 0 <= i < n
IndexInBounds(i, n) == 0 <= i /\ i < n

\* FsLabel::is_surface_vertex_in_label, the loop from entry k on
RECURSIVE MaskFrom(_, _, _)
MaskFrom(vertex_index, k, data_bin) ==
    IF k > Len(vertex_index) THEN [panic |-> FALSE, v |-> data_bin]
    ELSE IF ~IndexInBounds(vertex_index[k], Len(data_bin)) THEN [panic |-> TRUE, v |-> <<>>]
    ELSE MaskFrom(vertex_index, k + 1, [data_bin EXCEPT ![vertex_index[k] + 1] = TRUE])

is_surface_vertex_in_label_one_based(l, num_surface_verts) ==
    IF num_surface_verts < Len(l.vertex_index) THEN [panic |-> TRUE, v |-> <<>>]
    ELSE IF \E k \in 1..Len(l.vertex_index) :
              ~IndexInBounds(l.vertex_index[k], num_surface_verts)
         THEN [panic |-> TRUE, v |-> <<>>]
         ELSE [panic |-> FALSE,
               v |-> [p \in 1..num_surface_verts |->
                        \E k \in 1..Len(l.vertex_index) : l.vertex_index[k] = p]]

is_surface_vertex_in_label(l, num_surface_verts) ==
    IF num_surface_verts < Len(l.vertex_index) THEN [panic |-> TRUE, v |-> <<>>]
    ELSE MaskFrom(l.vertex_index, 1, [p \in 1..num_surface_verts |-> FALSE])

\* FsLabel::as_surface_data, the loop from entry k on
RECURSIVE SurfaceDataFrom(_, _, _)
SurfaceDataFrom(l, k, surface_data) ==
    IF k > Len(l.vertex_index) THEN [panic |-> FALSE, v |-> surface_data]
    ELSE IF ~IndexInBounds(l.vertex_index[k], Len(surface_data))
              \/ ~IndexInBounds(k - 1, Len(l.value))
         THEN [panic |-> TRUE, v |-> <<>>]
         ELSE SurfaceDataFrom(l, k + 1,
                  [surface_data EXCEPT ![l.vertex_index[k] + 1] = l.value[k]])

RECURSIVE SurfaceDataFirstWinsFrom(_, _, _, _)
SurfaceDataFirstWinsFrom(l, k, surface_data, seen) ==
    IF k > Len(l.vertex_index) THEN [panic |-> FALSE, v |-> surface_data]
    ELSE IF ~IndexInBounds(l.vertex_index[k], Len(surface_data))
         THEN [panic |-> TRUE, v |-> <<>>]
         ELSE SurfaceDataFirstWinsFrom(l, k + 1,
                  IF l.vertex_index[k] \in seen THEN surface_data
                  ELSE [surface_data EXCEPT ![l.vertex_index[k] + 1] = l.value[k]],
                  seen \cup {l.vertex_index[k]})

as_surface_data_first_wins(l, num_surface_verts, not_in_label_value) ==
    SurfaceDataFirstWinsFrom(l, 1, [p \in 1..num_surface_verts |-> not_in_label_value], {})

as_surface_data(l, num_surface_verts, not_in_label_value) ==
    SurfaceDataFrom(l, 1, [p \in 1..num_surface_verts |-> not_in_label_value])

\* Display of a non-negative integer: its decimal digits
DigitChar(d) ==
    CASE d = 0 -> "0" [] d = 1 -> "1" [] d = 2 -> "2" [] d = 3 -> "3" [] d = 4 -> "4"
      [] d = 5 -> "5" [] d = 6 -> "6" [] d = 7 -> "7" [] d = 8 -> "8" [] d = 9 -> "9"

RECURSIVE DigitsOf(_)
DigitsOf(n) ==
    IF n < 10 THEN <<DigitChar(n)>> ELSE Append(DigitsOf(n \div 10), DigitChar(n % 10))

\* `{}` of an i32 in format!
FormatI32(n) == IF n < 0 THEN <<"-">> \o DigitsOf(0 - n) ELSE DigitsOf(n)

\* `{}` of an f32 in format!, for the floats of the model: "NaN", or the integer
\* the float equals, printed without a fraction
FormatF32(x) == IF x.nan THEN <<"N", "a", "N">> ELSE FormatI32(x.v)

\* the two header lines write_label formats: the comment and the entry count
LabelHeaderLines(n) ==
    <<"#", " ", "F", "r", "e", "e", "S", "u", "r", "f", "e", "r", " ",
      "l", "a", "b", "e", "l", ".", "\n">> \o DigitsOf(n) \o <<"\n">>

\* the line write_label formats for entry idx of the label
LabelEntryLine(l, idx) ==
    FormatI32(l.vertex_index[idx]) \o <<" ">> \o FormatF32(l.coord1[idx]) \o <<" ">>
        \o FormatF32(l.coord2[idx]) \o <<" ">> \o FormatF32(l.coord3[idx]) \o <<" ">>
        \o FormatF32(l.value[idx]) \o <<"\n">>

\* `label.coord1[idx]` ... `label.value[idx]` for every idx of vertex_index: a panic
\* when one of the four other vectors is shorter than vertex_index
LabelIndexingPanics(l) ==
    LET n == Len(l.vertex_index) IN
    Len(l.coord1) < n \/ Len(l.coord2) < n \/ Len(l.coord3) < n \/ Len(l.value) < n

\* write_label: the content of the file written, entries in the order of the label
write_label_reversed(l) ==
    IF LabelIndexingPanics(l) THEN [panic |-> TRUE, v |-> <<>>]
    ELSE LET n == Len(l.vertex_index) IN
         [panic |-> FALSE,
          v |-> LabelHeaderLines(n)
                  \o Flatten([idx \in 1..n |-> LabelEntryLine(l, n + 1 - idx)])]

write_label(l) ==
    IF LabelIndexingPanics(l) THEN [panic |-> TRUE, v |-> <<>>]
    ELSE LET n == Len(l.vertex_index) IN
         [panic |-> FALSE,
          v |-> LabelHeaderLines(n) \o Flatten([idx \in 1..n |-> LabelEntryLine(l, idx)])]

\* Inputs of the label decoder
JoinWith(sep, ts) ==
    Flatten([i \in 1..Len(ts) |-> IF i = 1 THEN ts[i] ELSE sep \o ts[i]])

CommentLine == <<"#", "x">>
CountLines == { <<"0">>, <<"1">>, <<"2">>, <<"3">>, <<"-", "1">>, <<"x">> }
MalformedLines == { <<>>, <<"1", " ", "0">> }

\* a data line: index, three coordinates, value
DataLine(i, v) == JoinWith(<<" ">>, <<i, <<"0">>, <<"1">>, <<"2">>, v>>)

DataLines ==
    { DataLine(<<"0">>, <<"0">>), DataLine(<<"0">>, <<"1">>), DataLine(<<"2">>, <<"1">>),
      DataLine(<<"2">>, <<"N", "a", "N">>), DataLine(<<"-", "1">>, <<"0">>) }
    \cup MalformedLines

LabelFiles ==
    { JoinWith(<<"\n">>, <<CommentLine, c>> \o ls) \o nl :
        c \in CountLines,
        ls \in UNION { [1..k -> DataLines] : k \in 0..MaxLines },
        nl \in { <<>>, <<"\n">> } }
    \cup { <<>>, CommentLine, CommentLine \o <<"\n">> }

Sentinels == { NaN, F32(7) }

InitLabel ==
    /\ gz = FALSE
    /\ file \in LabelFiles
    /\ overflowChecks = TRUE
    /\ pc = "Lines"
    /\ pos = 0
    /\ hdr = None
    /\ hdr_res = "none"
    /\ mesh = NoMesh
    /\ data = <<>>
    /\ label = EmptyLabel
    /\ hdr_num_entries = 0
    /\ outcome = "running"
    /\ pass = 1
    /\ first = None
    /\ ret = None
    /\ annot = NoAnnot

\* read_label, one turn of `for (index, line) in reader.lines().enumerate()`;
\* pos is the index of the line
LabelReadLine ==
    /\ pc = "Lines"
    /\ pos < Len(Lines(file))
    /\ LET line == Lines(file)[pos + 1] IN
       IF pos = 0
       THEN UNCHANGED <<hdr_num_entries, label, outcome, pc>>
       ELSE IF pos = 1
       THEN LET r == ParseI32(line) IN
            IF r.ok
            THEN hdr_num_entries' = r.v /\ UNCHANGED <<label, outcome, pc>>
            ELSE outcome' = "panic" /\ pc' = "Done" /\ UNCHANGED <<hdr_num_entries, label>>
       ELSE LET e == ParseDataLine(line) IN
            IF e.ok
            THEN /\ label' = [vertex_index |-> Append(label.vertex_index, e.vertex_index),
                              coord1 |-> Append(label.coord1, e.coord1),
                              coord2 |-> Append(label.coord2, e.coord2),
                              coord3 |-> Append(label.coord3, e.coord3),
                              value |-> Append(label.value, e.value)]
                 /\ UNCHANGED <<hdr_num_entries, outcome, pc>>
            ELSE outcome' = "panic" /\ pc' = "Done" /\ UNCHANGED <<hdr_num_entries, label>>
    /\ pos' = pos + 1
    /\ UNCHANGED <<gz, file, overflowChecks, hdr, hdr_res, mesh, data, pass, first, ret>>
    /\ UNCHANGED annot

\* read_label, after the last line: the count check and the return
LabelCheckCount ==
    /\ pc = "Lines"
    /\ pos >= Len(Lines(file))
    /\ outcome' = IF LabelCountMismatch(hdr_num_entries, Len(label.vertex_index))
                  THEN "InvalidFsLabelFormat" ELSE "Ok"
    /\ pc' = "Done"
    /\ UNCHANGED <<gz, file, overflowChecks, pos, hdr, hdr_res, mesh, data, label,
                   hdr_num_entries, pass, first, ret>>
    /\ UNCHANGED annot

\* a caller's label.is_binary() on a decoded label (the derived operations take
\* &self and leave the label alone: one call per decoded label is followed)
LabelIsBinary ==
    /\ pc = "Done" /\ outcome = "Ok" /\ ret = None
    /\ ret' = [op |-> "is_binary", total |-> 0, sentinel |-> NaN, res |-> is_binary(label)]
    /\ UNCHANGED <<gz, file, overflowChecks, pc, pos, hdr, hdr_res, mesh, data, label,
                   hdr_num_entries, outcome, pass, first>>
    /\ UNCHANGED annot

\* a caller's label.is_surface_vertex_in_label(num_surface_verts)
LabelIsSurfaceVertexInLabel ==
    /\ pc = "Done" /\ outcome = "Ok" /\ ret = None
    /\ \E num_surface_verts \in 0..MaxTotal :
         ret' = [op |-> "is_surface_vertex_in_label", total |-> num_surface_verts,
                 sentinel |-> NaN,
                 res |-> is_surface_vertex_in_label(label, num_surface_verts)]
    /\ UNCHANGED <<gz, file, overflowChecks, pc, pos, hdr, hdr_res, mesh, data, label,
                   hdr_num_entries, outcome, pass, first>>
    /\ UNCHANGED annot

\* a caller's label.as_surface_data(num_surface_verts, not_in_label_value)
LabelAsSurfaceData ==
    /\ pc = "Done" /\ outcome = "Ok" /\ ret = None
    /\ \E num_surface_verts \in 0..MaxTotal, not_in_label_value \in Sentinels :
         ret' = [op |-> "as_surface_data", total |-> num_surface_verts,
                 sentinel |-> not_in_label_value,
                 res |-> as_surface_data(label, num_surface_verts, not_in_label_value)]
    /\ UNCHANGED <<gz, file, overflowChecks, pc, pos, hdr, hdr_res, mesh, data, label,
                   hdr_num_entries, outcome, pass, first>>
    /\ UNCHANGED annot

\* the labels a caller holding the decoded label l passes to write_label: l itself,
\* or l after a change of its public `value` vector that leaves it one short
LabelsToWrite(l) ==
    {l} \cup (IF l.value = <<>> THEN {}
              ELSE {[l EXCEPT !.value = SubSeq(l.value, 1, Len(l.value) - 1)]})

\* a caller's write_label(path, &l) to a path, followed by read_label(path) of the
\* file written (a_label_file_can_be_written_and_reread)
LabelWriteAndReread ==
    /\ pc = "Done" /\ outcome = "Ok" /\ ret = None /\ pass = 1
    /\ \E l \in LabelsToWrite(label) :
         LET w == write_label(l) IN
         /\ first' = l
         /\ IF w.panic
            THEN outcome' = "panic" /\ UNCHANGED <<file, pc, pos, label, hdr_num_entries>>
            ELSE /\ file' = w.v
                 /\ pc' = "Lines"
                 /\ pos' = 0
                 /\ label' = EmptyLabel
                 /\ hdr_num_entries' = 0
                 /\ outcome' = "running"
    /\ pass' = 2
    /\ UNCHANGED <<gz, overflowChecks, hdr, hdr_res, mesh, data, ret>>
    /\ UNCHANGED annot

NextLabel ==
    \/ LabelReadLine
    \/ LabelCheckCount
    \/ LabelIsBinary
    \/ LabelIsSurfaceVertexInLabel
    \/ LabelAsSurfaceData
    \/ LabelWriteAndReread

SpecLabel == InitLabel /\ [][NextLabel]_vars

----------------------------------------------------------------------------
(* Properties of the label codec *)

LabelReturned == pc = "Done"

Called(op) == ret # None /\ ret.op = op

\* the entry indices of the decoded label, as a set
EntryIndices == { label.vertex_index[k] : k \in 1..Len(label.vertex_index) }

C8_Mask ==
    Called("is_surface_vertex_in_label")
    => LET T == ret.total IN
       /\ ~ret.res.panic
            => /\ Len(ret.res.v) = T
               /\ \A i \in 0..(T - 1) : ret.res.v[i + 1] <=> i \in EntryIndices
       /\ (T < Len(label.vertex_index) \/ \E i \in EntryIndices : T <= i)
            => ret.res.panic

\* C8 witness: a mask of length 3 for a two-entry label, true somewhere and false
\* somewhere
C8_Witness ==
    /\ Called("is_surface_vertex_in_label") /\ ~ret.res.panic
    /\ ret.total = 3 /\ Len(label.vertex_index) = 2
    /\ \E i, j \in 1..3 : ret.res.v[i] /\ ~ret.res.v[j]

\* C9 as stated: for T greater than every entry index, as_surface_data(T, s)
\* returns T values, s wherever no entry has that index and each entry's value at
\* that entry's index.
C9_SurfaceDataAsStated ==
    (Called("as_surface_data") /\ \A i \in EntryIndices : i < ret.total)
    => /\ ~ret.res.panic
       /\ Len(ret.res.v) = ret.total
       /\ \A i \in 0..(ret.total - 1) : i \notin EntryIndices => ret.res.v[i + 1] = ret.sentinel
       /\ \A k \in 1..Len(label.vertex_index) :
             ret.res.v[label.vertex_index[k] + 1] = label.value[k]

\* C9 amended: for a label with no negative entry index and T greater than every
\* entry index, as_surface_data(T, s) returns T values, s wherever no entry has
\* that index, and at each entry index the value of the last entry with that index.
C9_SurfaceData ==
    (Called("as_surface_data") /\ \A i \in EntryIndices : 0 <= i /\ i < ret.total)
    => /\ ~ret.res.panic
       /\ Len(ret.res.v) = ret.total
       /\ \A i \in 0..(ret.total - 1) : i \notin EntryIndices => ret.res.v[i + 1] = ret.sentinel
       /\ \A k \in 1..Len(label.vertex_index) :
             (\A j \in (k + 1)..Len(label.vertex_index) :
                  label.vertex_index[j] # label.vertex_index[k])
             => ret.res.v[label.vertex_index[k] + 1] = label.value[k]

\* C9 witness: surface data of length 3 for a label with two entries of one index
\* and different values
C9_Witness ==
    /\ Called("as_surface_data") /\ ~ret.res.panic /\ ret.total = 3
    /\ \E j, k \in 1..Len(label.vertex_index) :
         /\ j < k
         /\ label.vertex_index[j] = label.vertex_index[k]
         /\ label.value[j] # label.value[k]
    /\ \E i \in 0..2 : i \notin EntryIndices

\* C10: for a label with entries, is_binary is true exactly when every entry holds
\* the value the first entry holds; for a label without entries it panics.
C10_IsBinary ==
    Called("is_binary")
    => /\ label.value = <<>> => ret.res.panic
       /\ label.value # <<>>
            => /\ ~ret.res.panic
               /\ ret.res.v <=> \A k \in 1..Len(label.value) : label.value[k] = label.value[1]

\* the five sequences of a label value have one length
EqualLengths(l) ==
    /\ Len(l.coord1) = Len(l.vertex_index)
    /\ Len(l.coord2) = Len(l.vertex_index)
    /\ Len(l.coord3) = Len(l.vertex_index)
    /\ Len(l.value) = Len(l.vertex_index)

\* C11: for a label whose five sequences have equal length, write_label does not
\* fail, and read_label of the file it wrote succeeds and returns a label with the
\* same number of entries and the same entry indices in the same order.
C11_LabelRoundTrip ==
    (pass = 2 /\ EqualLengths(first))
    => /\ outcome # "panic"
       /\ LabelReturned
            => /\ outcome = "Ok"
               /\ Len(label.vertex_index) = Len(first.vertex_index)
               /\ label.vertex_index = first.vertex_index

\* C11 witness: a label of two entries with different indices and a NaN value was
\* written and read back
C11_Witness ==
    /\ pass = 2 /\ LabelReturned /\ outcome = "Ok" /\ EqualLengths(first)
    /\ Len(first.vertex_index) >= 2
    /\ first.vertex_index[1] # first.vertex_index[2]
    /\ \E k \in 1..Len(first.value) : first.value[k].nan
    /\ label = first

----------------------------------------------------------------------------
(* Parcellation codec: fs_annot.rs *)
(* A String read from the file is the sequence of the code points of its chars *)
(* (each byte read is pushed `as char`).                                        *)

MaxVerts == 2
MaxRegions == 2

MaxI32 == 2147483647
MinI32 == (0 - MaxI32) - 1

\* `x + y` on i32: a panic with overflow checks, the sum modulo 2^32 without
AddI32(x, y, checks) ==
    IF x > 0 /\ y > 0 /\ x > MaxI32 - y
    THEN [panic |-> checks, v |-> (x + MinI32) + (y + MinI32)]
    ELSE IF x < 0 /\ y < 0 /\ x < MinI32 - y
    THEN [panic |-> checks, v |-> (x - MinI32) + (y - MinI32)]
    ELSE [panic |-> FALSE, v |-> x + y]

\* `x * (2 as i32).pow(k)` on i32, p the power of two: a panic with overflow
\* checks, the product modulo 2^32 without
MulPow2I32(x, p, checks) ==
    LET limit == (MaxI32 \div p) + 1
        m     == x % (2 * limit)
    IN  [panic |-> checks /\ (x >= limit \/ x < 0 - limit),
         v |-> IF m >= limit THEN (m - 2 * limit) * p ELSE m * p]

\* FsAnnotColortable::from_reader, the derived label of an entry:
\* r + g*2^8 + b*2^16 + a*2^24 in i32 arithmetic
ColortableLabel(r, g, b, a, checks) ==
    LET m1 == MulPow2I32(g, 256, checks)
        m2 == MulPow2I32(b, 65536, checks)
        m3 == MulPow2I32(a, 16777216, checks)
        s1 == AddI32(r, m1.v, checks)
        s2 == AddI32(s1.v, m2.v, checks)
        s3 == AddI32(s2.v, m3.v, checks)
    IN  [panic |-> m1.panic \/ m2.panic \/ m3.panic \/ s1.panic \/ s2.panic \/ s3.panic,
         v |-> s3.v]

\* read_fixed_length_string, the loop from char_idx on: len bytes are read, each
\* pushed as a char, except a NUL in the last position; an I/O error when the
\* input ends first
RECURSIVE FixedLengthStringFrom(_, _, _, _, _)
FixedLengthStringFrom(s, p, len, char_idx, info_line) ==
    IF char_idx >= len THEN [ok |-> TRUE, str |-> info_line, pos |-> p]
    ELSE IF p >= Len(s) THEN [ok |-> FALSE, str |-> info_line, pos |-> p]
    ELSE LET cur_char == s[p + 1] IN
         FixedLengthStringFrom(s, p + 1, len, char_idx + 1,
             IF char_idx = len - 1 /\ cur_char = 0 THEN info_line
             ELSE Append(info_line, cur_char))

\* only the char at index len - 1 is dropped when it is NUL
read_fixed_length_string_keeping_nul(s, p, len) ==
    IF p + len <= Len(s)
    THEN [ok |-> TRUE, str |-> SubSeq(s, p + 1, p + len), pos |-> p + len]
    ELSE [ok |-> FALSE, str |-> SubSeq(s, p + 1, Len(s)), pos |-> Len(s)]

read_fixed_length_string(s, p, len) == FixedLengthStringFrom(s, p, len, 0, <<>>)

\* p + n bytes of s exist: a read of n bytes at position p does not hit the end
CanRead(s, p, n) == p + n <= Len(s)

\* `has_colortable != 1` is the rejection: the flag that lets the decode go on
ColortablePresentIfPositive(has_colortable) == has_colortable >= 1

ColortablePresent(has_colortable) == has_colortable = 1

\* `num_colortable_entries == -2`: the only format version the decoder takes
ANNOT_VERSION_2 == -2

\* position(|x| *x == region) on the names: the 0-based index of the first name
\* equal to region, -1 for None
RECURSIVE PositionFrom(_, _, _)
PositionFrom(names, region, k) ==
    IF k > Len(names) THEN -1
    ELSE IF names[k] = region THEN k - 1
    ELSE PositionFrom(names, region, k + 1)

\* FsAnnot::region_vertices, the loop over the vertex labels from position idx on
RECURSIVE RegionVertsFrom(_, _, _, _)
RegionVertsFrom(vertex_labels, region_label, idx, region_verts) ==
    IF idx >= Len(vertex_labels) THEN region_verts
    ELSE RegionVertsFrom(vertex_labels, region_label, idx + 1,
             IF vertex_labels[idx + 1] = region_label
             THEN Append(region_verts, idx) ELSE region_verts)

region_vertices_one_based(an, region) ==
    LET region_idx == PositionFrom(an.colortable.name, region, 1) IN
    IF region_idx < 0 THEN [panic |-> TRUE, v |-> <<>>]
    ELSE LET v0 == RegionVertsFrom(an.vertex_labels,
                                   an.colortable.label[region_idx + 1], 0, <<>>)
         IN  [panic |-> FALSE, v |-> [i \in 1..Len(v0) |-> v0[i] + 1]]

region_vertices(an, region) ==
    LET region_idx == PositionFrom(an.colortable.name, region, 1) IN
    IF region_idx < 0 THEN [panic |-> TRUE, v |-> <<>>]
    ELSE [panic |-> FALSE,
          v |-> RegionVertsFrom(an.vertex_labels,
                                an.colortable.label[region_idx + 1], 0, <<>>)]

\* FsAnnot::vertex_regions, `vert_regions[idx] = region_name.clone()` for the
\* vertices from position idx on that carry region_label
RECURSIVE AssignRegionFrom(_, _, _, _, _)
AssignRegionFrom(vertex_labels, region_label, region_name, idx, vert_regions) ==
    IF idx >= Len(vertex_labels) THEN [panic |-> FALSE, v |-> vert_regions]
    ELSE IF vertex_labels[idx + 1] # region_label
    THEN AssignRegionFrom(vertex_labels, region_label, region_name, idx + 1, vert_regions)
    ELSE IF ~IndexInBounds(idx, Len(vert_regions)) THEN [panic |-> TRUE, v |-> <<>>]
    ELSE AssignRegionFrom(vertex_labels, region_label, region_name, idx + 1,
             [vert_regions EXCEPT ![idx + 1] = region_name])

\* FsAnnot::vertex_regions, the loop over the regions from the k-th name on
RECURSIVE VertexRegionsFrom(_, _, _)
VertexRegionsFrom(an, k, vert_regions) ==
    IF k > Len(an.colortable.name) THEN [panic |-> FALSE, v |-> vert_regions]
    ELSE LET region_idx == PositionFrom(an.colortable.name, an.colortable.name[k], 1)
             r == AssignRegionFrom(an.vertex_labels, an.colortable.label[region_idx + 1],
                                   an.colortable.name[region_idx + 1], 0, vert_regions)
         IN  IF r.panic THEN r ELSE VertexRegionsFrom(an, k + 1, r.v)

\* FsAnnot::vertex_regions: vert_regions starts as Vec::with_capacity(n), a vector
\* of length 0
vertex_regions(an) == VertexRegionsFrom(an, 1, <<>>)

\* FsAnnot::vertex_colortable_indices, the inner loop: the 0-based index of the
\* first region label equal to vlabel from entry k on, -1 when not found
RECURSIVE FirstRegionFrom(_, _, _)
FirstRegionFrom(labels, vlabel, k) ==
    IF k > Len(labels) THEN -1
    ELSE IF labels[k] = vlabel THEN k - 1
    ELSE FirstRegionFrom(labels, vlabel, k + 1)

RECURSIVE LastRegionFrom(_, _, _)
LastRegionFrom(labels, vlabel, k) ==
    IF k < 1 THEN -1
    ELSE IF labels[k] = vlabel THEN k - 1
    ELSE LastRegionFrom(labels, vlabel, k - 1)

vertex_colortable_indices_last_match(an, unmatched_region_index) ==
    [i \in 1..Len(an.vertex_labels) |->
        LET region_idx == LastRegionFrom(an.colortable.label, an.vertex_labels[i],
                                         Len(an.colortable.label))
        IN  IF region_idx >= 0 THEN region_idx ELSE unmatched_region_index]

vertex_colortable_indices(an, unmatched_region_index) ==
    [i \in 1..Len(an.vertex_labels) |->
        LET region_idx == FirstRegionFrom(an.colortable.label, an.vertex_labels[i], 1)
        IN  IF region_idx >= 0 THEN region_idx ELSE unmatched_region_index]

\* `x as u8` of an i32: its low eight bits
AsU8(x) == x % 256

\* FsAnnot::vertex_colors: r, g, b (and a) of the entry of each vertex, as u8;
\* indexing the color vectors panics for an index outside the table
vertex_colors(an, alpha, unmatched_region_index) ==
    LET idxs == vertex_colortable_indices(an, unmatched_region_index)
        ct   == an.colortable
    IN  IF \E i \in 1..Len(idxs) : ~IndexInBounds(idxs[i], Len(ct.r))
        THEN [panic |-> TRUE, v |-> <<>>]
        ELSE [panic |-> FALSE,
              v |-> Flatten([i \in 1..Len(idxs) |->
                        <<AsU8(ct.r[idxs[i] + 1]), AsU8(ct.g[idxs[i] + 1]),
                          AsU8(ct.b[idxs[i] + 1])>>
                        \o (IF alpha THEN <<AsU8(ct.a[idxs[i] + 1])>> ELSE <<>>)])]

\* Inputs of the parcellation decoder
\* a color-table entry as stored: id, name length, name bytes, r, g, b, a
EntryBytes(id, name, r, g, b, a) ==
    I32ToBytes(id) \o I32ToBytes(Len(name)) \o name \o WordsToBytes(<<r, g, b, a>>)

\* "u" with its NUL (25,5,25,0 -> 1639705); "b" without NUL (1,1,0,0 -> 257);
\* "u" again with alpha 128; "c" with a red of 257 (-> 257)
AnnotEntries ==
    { EntryBytes(0, <<117, 0>>, 25, 5, 25, 0), EntryBytes(1, <<98>>, 1, 1, 0, 0),
      EntryBytes(2, <<117, 0>>, 0, 0, 0, 128), EntryBytes(3, <<99, 0>>, 257, 0, 0, 0) }

AnnotVertexLabels == { 1639705, 257, 7 }

\* the vertex count and the (index, label) pairs
VertexPart(ls) ==
    I32ToBytes(Len(ls)) \o Flatten([i \in 1..Len(ls) |-> WordsToBytes(<<i - 1, ls[i]>>)])

AnnotVertexParts ==
    { VertexPart(ls) : ls \in UNION { [1..n -> AnnotVertexLabels] : n \in 0..MaxVerts } }

\* the color table as stored: file name, entry count, entries
ColortablePart(fname_len, fname, count, es) ==
    I32ToBytes(fname_len) \o fname \o I32ToBytes(count) \o Flatten(es)

AnnotColortableParts ==
    { ColortablePart(2, <<102, 0>>, Len(es), es) :
        es \in UNION { [1..n -> AnnotEntries] : n \in 0..MaxRegions } }

AnnotSampleFile ==
    VertexPart(<<257>>) \o WordsToBytes(<<1, -2, 2>>)
        \o ColortablePart(2, <<102, 0>>, 2,
               <<EntryBytes(0, <<117, 0>>, 25, 5, 25, 0), EntryBytes(1, <<98>>, 1, 1, 0, 0)>>)

AnnotFiles ==
    { vp \o WordsToBytes(<<1, -2, 0>>) \o cp :
        vp \in AnnotVertexParts, cp \in AnnotColortableParts }
    \cup { vp \o WordsToBytes(<<flag, count, 1>>)
              \o ColortablePart(0, <<>>, 1, <<EntryBytes(0, <<117, 0>>, 25, 5, 25, 0)>>) :
             vp \in AnnotVertexParts,
             flag \in {0, 1, 2}, count \in {-2, -1, 2} }
    \cup { vp \o WordsToBytes(<<1>>) : vp \in AnnotVertexParts }
    \cup { I32ToBytes(-1),
           VertexPart(<<7>>) \o WordsToBytes(<<1, -2, 0>>) \o ColortablePart(-1, <<>>, 0, <<>>),
           VertexPart(<<7>>) \o WordsToBytes(<<1, -2, 0>>) \o ColortablePart(0, <<>>, -1, <<>>),
           VertexPart(<<7>>) \o WordsToBytes(<<1, -2, 0>>) \o I32ToBytes(0) \o I32ToBytes(1)
               \o I32ToBytes(0) \o I32ToBytes(-1) }
    \cup Prefixes({AnnotSampleFile})

AnnotRegionNames == { <<117>>, <<98>>, <<99>>, <<122>> }
AnnotFallbackIndices == 0..(MaxRegions + 1)

AnnotLocals == [num_vertices |-> 0, num_colortable_entries |-> 0]

InitAnnot ==
    /\ gz = FALSE
    /\ file \in AnnotFiles
    /\ overflowChecks \in BOOLEAN
    /\ pc = "NumVertices"
    /\ pos = 0
    /\ hdr = AnnotLocals
    /\ hdr_res = "none"
    /\ mesh = NoMesh
    /\ data = <<>>
    /\ label = EmptyLabel
    /\ hdr_num_entries = 0
    /\ outcome = "running"
    /\ pass = 1
    /\ first = None
    /\ ret = None
    /\ annot = NoAnnot

\* what no step of the parcellation decoder touches
AnnotUnused == <<gz, file, overflowChecks, hdr_res, mesh, data, label, hdr_num_entries,
                 pass, first>>

\* FsAnnot::from_file: num_vertices and the two Vec::with_capacity(num_vertices as usize)
AnnotReadNumVertices ==
    /\ pc = "NumVertices"
    /\ IF ~CanRead(file, pos, 4)
       THEN outcome' = "Io" /\ pc' = "Done" /\ UNCHANGED <<pos, hdr>>
       ELSE /\ hdr' = [hdr EXCEPT !.num_vertices = WordAt(file, pos)]
            /\ pos' = pos + 4
            /\ IF CapacityOverflows(WordAt(file, pos))
               THEN outcome' = "panic" /\ pc' = "Done"
               ELSE pc' = "Vertices" /\ UNCHANGED outcome
    /\ UNCHANGED <<ret, annot>>
    /\ UNCHANGED AnnotUnused

\* FsAnnot::from_file, one turn of `for _ in 1..=num_vertices`
AnnotReadVertex ==
    /\ pc = "Vertices"
    /\ Len(annot.vertex_indices) < hdr.num_vertices
    /\ IF ~CanRead(file, pos, 8)
       THEN outcome' = "Io" /\ pc' = "Done" /\ UNCHANGED <<pos, annot>>
       ELSE /\ annot' = [annot EXCEPT
                           !.vertex_indices = Append(@, WordAt(file, pos)),
                           !.vertex_labels = Append(@, WordAt(file, pos + 4))]
            /\ pos' = pos + 8
            /\ UNCHANGED <<outcome, pc>>
    /\ UNCHANGED <<hdr, ret>>
    /\ UNCHANGED AnnotUnused

\* FsAnnot::from_file: has_colortable and its check
AnnotReadFlag ==
    /\ pc = "Vertices"
    /\ Len(annot.vertex_indices) >= hdr.num_vertices
    /\ IF ~CanRead(file, pos, 4)
       THEN outcome' = "Io" /\ pc' = "Done" /\ UNCHANGED pos
       ELSE /\ pos' = pos + 4
            /\ IF ColortablePresent(WordAt(file, pos))
               THEN pc' = "Version" /\ UNCHANGED outcome
               ELSE outcome' = "UnsupportedFsAnnotFormatVersion" /\ pc' = "Done"
    /\ UNCHANGED <<hdr, ret, annot>>
    /\ UNCHANGED AnnotUnused

\* FsAnnot::from_file: num_colortable_entries, its check, and for version 2 the
\* i32 that follows
AnnotReadVersion ==
    /\ pc = "Version"
    /\ IF ~CanRead(file, pos, 4)
       THEN outcome' = "Io" /\ pc' = "Done" /\ UNCHANGED pos
       ELSE IF WordAt(file, pos) # ANNOT_VERSION_2
       THEN outcome' = "UnsupportedFsAnnotFormatVersion" /\ pc' = "Done" /\ pos' = pos + 4
       ELSE IF ~CanRead(file, pos, 8)
       THEN outcome' = "Io" /\ pc' = "Done" /\ pos' = pos + 4
       ELSE pos' = pos + 8 /\ pc' = "ColortableHeader" /\ UNCHANGED outcome
    /\ UNCHANGED <<hdr, ret, annot>>
    /\ UNCHANGED AnnotUnused

\* FsAnnotColortable::from_reader up to the loop: the file name (its Result is
\* dropped, the reader stays where the read stopped), the entry count, and the
\* seven Vec::with_capacity(num_colortable_entries as usize)
AnnotReadColortableHeader ==
    /\ pc = "ColortableHeader"
    /\ IF ~CanRead(file, pos, 4)
       THEN outcome' = "Io" /\ pc' = "Done" /\ UNCHANGED <<pos, hdr>>
       ELSE IF CapacityOverflows(WordAt(file, pos))
       THEN outcome' = "panic" /\ pc' = "Done" /\ pos' = pos + 4 /\ UNCHANGED hdr
       ELSE LET fname == read_fixed_length_string(file, pos + 4, WordAt(file, pos)) IN
            IF ~CanRead(file, fname.pos, 4)
            THEN outcome' = "Io" /\ pc' = "Done" /\ pos' = fname.pos /\ UNCHANGED hdr
            ELSE /\ hdr' = [hdr EXCEPT !.num_colortable_entries = WordAt(file, fname.pos)]
                 /\ pos' = fname.pos + 4
                 /\ IF CapacityOverflows(WordAt(file, fname.pos))
                    THEN outcome' = "panic" /\ pc' = "Done"
                    ELSE pc' = "ColortableEntries" /\ UNCHANGED outcome
    /\ UNCHANGED <<ret, annot>>
    /\ UNCHANGED AnnotUnused

\* FsAnnotColortable::from_reader, one turn of `for idx in 0..num_colortable_entries`:
\* id, name, r, g, b, a are pushed as they are read, the label after them
AnnotReadColortableEntry ==
    /\ pc = "ColortableEntries"
    /\ Len(annot.colortable.id) < hdr.num_colortable_entries
    /\ IF ~CanRead(file, pos, 8)
       THEN outcome' = "Io" /\ pc' = "Done" /\ UNCHANGED <<pos, annot>>
       ELSE IF CapacityOverflows(WordAt(file, pos + 4))
       THEN outcome' = "panic" /\ pc' = "Done" /\ pos' = pos + 8 /\ UNCHANGED annot
       ELSE LET nm == read_fixed_length_string(file, pos + 8, WordAt(file, pos + 4)) IN
            IF ~nm.ok \/ ~CanRead(file, nm.pos, 16)
            THEN outcome' = "Io" /\ pc' = "Done" /\ pos' = nm.pos /\ UNCHANGED annot
            ELSE LET c  == ReadWords(file, nm.pos, 4)
                     l  == ColortableLabel(c[1], c[2], c[3], c[4], overflowChecks)
                     ct == annot.colortable
                     pushed == [ct EXCEPT !.id = Append(@, WordAt(file, pos)),
                                          !.name = Append(@, nm.str),
                                          !.r = Append(@, c[1]), !.g = Append(@, c[2]),
                                          !.b = Append(@, c[3]), !.a = Append(@, c[4])]
                 IN  /\ pos' = nm.pos + 16
                     /\ IF l.panic
                        THEN /\ annot' = [annot EXCEPT !.colortable = pushed]
                             /\ outcome' = "panic" /\ pc' = "Done"
                        ELSE /\ annot' = [annot EXCEPT !.colortable =
                                            [pushed EXCEPT !.label = Append(@, l.v)]]
                             /\ UNCHANGED <<outcome, pc>>
    /\ UNCHANGED <<hdr, ret>>
    /\ UNCHANGED AnnotUnused

\* FsAnnotColortable::from_reader after the loop, and from_file's Ok(annot)
AnnotReturn ==
    /\ pc = "ColortableEntries"
    /\ Len(annot.colortable.id) >= hdr.num_colortable_entries
    /\ outcome' = "Ok"
    /\ pc' = "Done"
    /\ UNCHANGED <<pos, hdr, ret, annot>>
    /\ UNCHANGED AnnotUnused

\* a caller's annot.region_vertices(region) on a decoded parcellation (the derived
\* operations take &self: one call per decoded parcellation is followed)
AnnotRegionVertices ==
    /\ pc = "Done" /\ outcome = "Ok" /\ ret = None
    /\ \E region \in AnnotRegionNames :
         ret' = [op |-> "region_vertices", region |-> region, alpha |-> FALSE, f |-> 0,
                 res |-> region_vertices(annot, region)]
    /\ UNCHANGED <<pc, pos, hdr, outcome, annot>>
    /\ UNCHANGED AnnotUnused

\* a caller's annot.vertex_colors(alpha, unmatched_region_index)
AnnotVertexColors ==
    /\ pc = "Done" /\ outcome = "Ok" /\ ret = None
    /\ \E alpha \in BOOLEAN, unmatched_region_index \in AnnotFallbackIndices :
         ret' = [op |-> "vertex_colors", region |-> <<>>, alpha |-> alpha,
                 f |-> unmatched_region_index,
                 res |-> vertex_colors(annot, alpha, unmatched_region_index)]
    /\ UNCHANGED <<pc, pos, hdr, outcome, annot>>
    /\ UNCHANGED AnnotUnused

\* a caller's annot.vertex_regions()
AnnotVertexRegions ==
    /\ pc = "Done" /\ outcome = "Ok" /\ ret = None
    /\ ret' = [op |-> "vertex_regions", region |-> <<>>, alpha |-> FALSE, f |-> 0,
               res |-> vertex_regions(annot)]
    /\ UNCHANGED <<pc, pos, hdr, outcome, annot>>
    /\ UNCHANGED AnnotUnused

NextAnnot ==
    \/ AnnotReadNumVertices
    \/ AnnotReadVertex
    \/ AnnotReadFlag
    \/ AnnotReadVersion
    \/ AnnotReadColortableHeader
    \/ AnnotReadColortableEntry
    \/ AnnotReturn
    \/ AnnotRegionVertices
    \/ AnnotVertexColors
    \/ AnnotVertexRegions

SpecAnnot == InitAnnot /\ [][NextAnnot]_vars

----------------------------------------------------------------------------
(* Properties of the parcellation codec *)

AnnotReturned == pc = "Done"

\* the byte offset of the flag integer: after the vertex count and the pairs
FlagOffset == 4 + 8 * hdr.num_vertices

\* the decode got past the vertex count and the vertex_count pairs, and the flag
\* integer is there
PairsRead ==
    /\ pc # "NumVertices"
    /\ hdr.num_vertices >= 0
    /\ Len(annot.vertex_labels) = hdr.num_vertices
    /\ CanRead(file, FlagOffset, 4)

\* C12: after the vertex count and the pairs, a flag other than 1 makes the decode
\* fail with UnsupportedVersion; flag 1 followed by a count other than -2 makes it
\* fail with UnsupportedVersion; the color table is parsed only after flag 1 and
\* count -2.
C12_FlagAndVersion ==
    PairsRead
    => LET flag == WordAt(file, FlagOffset) IN
       /\ (AnnotReturned /\ flag # 1) => outcome = "UnsupportedFsAnnotFormatVersion"
       /\ (AnnotReturned /\ flag = 1 /\ CanRead(file, FlagOffset, 8)
             /\ WordAt(file, FlagOffset + 4) # -2)
            => outcome = "UnsupportedFsAnnotFormatVersion"
       /\ (pc \in {"ColortableHeader", "ColortableEntries"} \/ outcome = "Ok"
             \/ annot.colortable # EmptyColortable)
            => /\ flag = 1
               /\ CanRead(file, FlagOffset, 8)
               /\ WordAt(file, FlagOffset + 4) = -2

\* C12 witness: two pairs, then flag 1 and count 2: rejected as unsupported
C12_Witness ==
    /\ PairsRead /\ AnnotReturned /\ outcome = "UnsupportedFsAnnotFormatVersion"
    /\ hdr.num_vertices = 2
    /\ WordAt(file, FlagOffset) = 1
    /\ WordAt(file, FlagOffset + 4) = 2

\* R, G, B, A of entry k of the table under construction are all in 0..255
ComponentsInByteRange(k) ==
    LET ct == annot.colortable IN
    /\ ct.r[k] \in 0..255 /\ ct.g[k] \in 0..255
    /\ ct.b[k] \in 0..255 /\ ct.a[k] \in 0..255

\* C13: for a color-table entry with R, G, B, A each in 0..255, decoding the entry
\* does not fail and its derived label is R + G*2^8 + B*2^16 + A*2^24 as a 32-bit
\* (two's complement) value.
C13_DerivedLabel ==
    LET ct == annot.colortable IN
    \A k \in 1..Len(ct.r) :
        ComponentsInByteRange(k)
        => /\ k <= Len(ct.label)
           /\ ct.label[k] = ct.r[k] + ct.g[k] * 256 + ct.b[k] * 65536
                              + (IF ct.a[k] >= 128 THEN ct.a[k] - 256 ELSE ct.a[k]) * 16777216

\* the entry region_vertices looks a present name up to: the first with that name
FirstNamed(region) ==
    CHOOSE k \in 1..Len(annot.colortable.name) :
        /\ annot.colortable.name[k] = region
        /\ \A j \in 1..(k - 1) : annot.colortable.name[j] # region

\* C14: for a region name present in the color table, region_vertices(name)
\* returns, in increasing order, exactly the vertex positions whose label equals
\* the derived label of the region of that name (the first one, should two entries
\* share the name); for a name not in the table the call panics.
C14_RegionVertices ==
    Called("region_vertices")
    => LET ct == annot.colortable
           present == \E k \in 1..Len(ct.name) : ct.name[k] = ret.region
       IN  /\ ~present => ret.res.panic
           /\ present
                => /\ ~ret.res.panic
                   /\ \A i, j \in 1..Len(ret.res.v) : i < j => ret.res.v[i] < ret.res.v[j]
                   /\ { ret.res.v[i] : i \in 1..Len(ret.res.v) }
                        = { i \in 0..(Len(annot.vertex_labels) - 1) :
                              annot.vertex_labels[i + 1] = ct.label[FirstNamed(ret.region)] }

\* C14 witness: of two vertices, the second alone carries the label of the region
\* asked for
C14_Witness ==
    /\ Called("region_vertices") /\ ~ret.res.panic
    /\ Len(annot.vertex_labels) = 2
    /\ ret.res.v = <<1>>

\* the 0-based index of the entry whose color vertex i (1-based here) gets: the
\* first entry with the vertex's label, entry f when there is none
ColorEntryOf(i, f) ==
    LET ct == annot.colortable
        matches == { k \in 1..Len(ct.label) : ct.label[k] = annot.vertex_labels[i] }
    IN  IF matches = {} THEN f
        ELSE (CHOOSE k \in matches : \A j \in matches : k <= j) - 1

\* C15 as stated: for an in-range fallback index f, vertex_colors(alpha, f) returns
\* 4n bytes with alpha and 3n without, the bytes of vertex i being R, G, B (, A) of
\* the first entry whose derived label is the vertex's label, or of entry f when
\* none matches, the index vertex_colortable_indices(f) holds at i.
C15_VertexColorsAsStated ==
    (Called("vertex_colors") /\ ret.f < Len(annot.colortable.name))
    => LET ct == annot.colortable
           n  == Len(annot.vertex_labels)
           w  == IF ret.alpha THEN 4 ELSE 3
       IN  /\ ~ret.res.panic
           /\ Len(ret.res.v) = w * n
           /\ \A i \in 1..n :
                LET e == ColorEntryOf(i, ret.f) + 1 IN
                /\ vertex_colortable_indices(annot, ret.f)[i] = e - 1
                /\ ret.res.v[w * (i - 1) + 1] = ct.r[e]
                /\ ret.res.v[w * (i - 1) + 2] = ct.g[e]
                /\ ret.res.v[w * (i - 1) + 3] = ct.b[e]
                /\ ret.alpha => ret.res.v[w * (i - 1) + 4] = ct.a[e]

\* C15 amended: as above, the bytes being the low eight bits of R, G, B (, A) of
\* that entry (the components themselves when they lie in 0..255).
C15_VertexColors ==
    (Called("vertex_colors") /\ ret.f < Len(annot.colortable.name))
    => LET ct == annot.colortable
           n  == Len(annot.vertex_labels)
           w  == IF ret.alpha THEN 4 ELSE 3
       IN  /\ ~ret.res.panic
           /\ Len(ret.res.v) = w * n
           /\ \A i \in 1..n :
                LET e == ColorEntryOf(i, ret.f) + 1 IN
                /\ vertex_colortable_indices(annot, ret.f)[i] = e - 1
                /\ ret.res.v[w * (i - 1) + 1] = ct.r[e] % 256
                /\ ret.res.v[w * (i - 1) + 2] = ct.g[e] % 256
                /\ ret.res.v[w * (i - 1) + 3] = ct.b[e] % 256
                /\ ret.alpha => ret.res.v[w * (i - 1) + 4] = ct.a[e] % 256

\* C15 witness: RGBA colors of two vertices, the first matching two entries of
\* different colors, the second matching none and colored by fallback entry 1
C15_Witness ==
    /\ Called("vertex_colors") /\ ~ret.res.panic /\ ret.alpha /\ ret.f = 1
    /\ Len(annot.vertex_labels) = 2 /\ Len(annot.colortable.label) = 2
    /\ annot.colortable.label[1] = annot.vertex_labels[1]
    /\ annot.colortable.label[2] = annot.vertex_labels[1]
    /\ annot.colortable.r[1] # annot.colortable.r[2]
    /\ \A k \in 1..2 : annot.colortable.label[k] # annot.vertex_labels[2]
    /\ Len(ret.res.v) = 8

\* C16: vertex_colors(alpha, f) with f greater than or equal to the number of
\* regions of the color table panics and returns no color sequence.
C16_OutOfRangeFallbackPanics ==
    (Called("vertex_colors") /\ ret.f >= Len(annot.colortable.name))
    => ret.res.panic

\* C17: vertex_regions() returns n region names, the one at position i being the
\* name of a color-table region whose derived label is the label of vertex i.
C17_VertexRegions ==
    Called("vertex_regions")
    => LET ct == annot.colortable
           n  == Len(annot.vertex_labels)
       IN  /\ ~ret.res.panic
           /\ Len(ret.res.v) = n
           /\ \A i \in 1..n :
                (\E k \in 1..Len(ct.label) : ct.label[k] = annot.vertex_labels[i])
                => \E k \in 1..Len(ct.label) :
                      /\ ct.label[k] = annot.vertex_labels[i]
                      /\ ret.res.v[i] = ct.name[k]

----------------------------------------------------------------------------
(* Volume codec: fs_mgh.rs *)
(* gz is is_mgz_file(path): the file name ends in ".mgz".  The f32 fields of the *)
(* header and the f32 voxels are carried as their bit patterns.                 *)

MaxVoxels == 2

MGH_VERSION_CODE == 1
MRI_UCHAR == 0
MRI_INT == 1
MRI_FLOAT == 3
MRI_SHORT == 4
MGH_DATA_START == 284

\* the bits of f32::NAN
F32_NAN == 2143289344

\* read_i16 of a big-endian byte source: the i16 stored at bytes p+1, p+2 of s
I16At(s, p) == (IF s[p + 1] >= 128 THEN s[p + 1] - 256 ELSE s[p + 1]) * 256 + s[p + 2]

\* `x * n` on i32 for n >= 0 by doubling: the product modulo 2^32, and whether
\* the product leaves the i32 range
RECURSIVE MulNatI32(_, _)
MulNatI32(x, n) ==
    IF n = 0 THEN [panic |-> FALSE, v |-> 0]
    ELSE LET h == MulNatI32(x, n \div 2)
             d == AddI32(h.v, h.v, TRUE)
             e == IF n % 2 = 1 THEN AddI32(d.v, x, TRUE) ELSE [panic |-> FALSE, v |-> d.v]
         IN  [panic |-> h.panic \/ d.panic \/ e.panic, v |-> e.v]

\* `x * y` on i32: a panic with overflow checks, the product modulo 2^32 without
MulI32(x, y, checks) ==
    LET r == IF x = MinI32 \/ y = MinI32
             THEN LET o == IF x = MinI32 THEN y ELSE x IN
                  [panic |-> o \notin {0, 1},
                   v |-> IF o % 2 = 0 THEN 0 ELSE MinI32]
             ELSE IF y < 0 THEN MulNatI32(0 - x, 0 - y) ELSE MulNatI32(x, y)
    IN  [panic |-> checks /\ r.panic, v |-> r.v]

\* FsMghHeader::default
FsMghHeaderDefault ==
    [mgh_format_version |-> 1, dim1len |-> 0, dim2len |-> 0, dim3len |-> 0, dim4len |-> 0,
     dtype |-> MRI_INT, dof |-> 0, is_ras_good |-> 0,
     delta |-> <<0, 0, 0>>, mdc_raw |-> <<0, 0, 0, 0, 0, 0, 0, 0, 0>>, p_xyz_c |-> <<0, 0, 0>>]

\* FsMghData with its four fields None
NoMghData == [mri_uchar |-> None, mri_float |-> None, mri_int |-> None, mri_short |-> None]

\* `hdr.mgh_format_version != MGH_VERSION_CODE` is the rejection
MghVersionAny(mgh_format_version) == TRUE

MghVersionOk(mgh_format_version) == mgh_format_version = MGH_VERSION_CODE

\* `hdr.is_ras_good == 1 as i16`: the calibration fields follow
RasGoodIfNonZero(is_ras_good) == is_ras_good # 0

RasGood(is_ras_good) == is_ras_good = 1

\* the bytes one element of the payload takes
ElementSize(dtype) ==
    CASE dtype = MRI_UCHAR -> 1 [] dtype = MRI_SHORT -> 2
      [] dtype = MRI_INT -> 4 [] dtype = MRI_FLOAT -> 4

\* read_u8 / read_i16 / read_i32 / read_f32 of element k (from 0) of the payload
ElementAt(s, dtype, k) ==
    CASE dtype = MRI_UCHAR -> s[MGH_DATA_START + k + 1]
      [] dtype = MRI_SHORT -> I16At(s, MGH_DATA_START + 2 * k)
      [] dtype = MRI_INT -> WordAt(s, MGH_DATA_START + 4 * k)
      [] dtype = MRI_FLOAT -> WordAt(s, MGH_DATA_START + 4 * k)

\* Array::from_shape_vec(vol_dim, mgh_data) is Ok: no dimension is negative (as
\* usize a negative one is huge) and the shape holds exactly len elements
ShapeOk(h, overflowed, len) ==
    /\ h.dim1len >= 0 /\ h.dim2len >= 0 /\ h.dim3len >= 0 /\ h.dim4len >= 0
    /\ IF h.dim1len = 0 \/ h.dim2len = 0 \/ h.dim3len = 0 \/ h.dim4len = 0
       THEN len = 0
       ELSE ~overflowed

\* FsMgh::data_from_reader on a byte source: what it returns, the payload, and
\* the read position
data_from_reader(src, h, checks) ==
    IF ~src.ok THEN [res |-> "Io", data |-> NoMghData, pos |-> 0]
    ELSE IF Len(src.bytes) < MGH_DATA_START
    THEN [res |-> "Io", data |-> NoMghData, pos |-> Len(src.bytes)]
    ELSE LET p1 == MulI32(h.dim1len, h.dim2len, TRUE)
             p2 == MulI32(p1.v, h.dim3len, TRUE)
             p3 == MulI32(p2.v, h.dim4len, TRUE)
             overflowed == p1.panic \/ p2.panic \/ p3.panic
             num_voxels == p3.v
         IN  IF checks /\ overflowed
             THEN [res |-> "panic", data |-> NoMghData, pos |-> MGH_DATA_START]
             ELSE IF h.dtype \notin {MRI_UCHAR, MRI_INT, MRI_FLOAT, MRI_SHORT}
             THEN [res |-> "UnsupportedMriDataTypeInMgh", data |-> NoMghData,
                   pos |-> MGH_DATA_START]
             ELSE IF CapacityOverflows(num_voxels)
             THEN [res |-> "panic", data |-> NoMghData, pos |-> MGH_DATA_START]
             ELSE IF (Len(src.bytes) - MGH_DATA_START) \div ElementSize(h.dtype) < num_voxels
             THEN [res |-> "Io", data |-> NoMghData, pos |-> Len(src.bytes)]
             ELSE IF ~ShapeOk(h, overflowed, num_voxels)
             THEN [res |-> "panic", data |-> NoMghData,
                   pos |-> MGH_DATA_START + ElementSize(h.dtype) * num_voxels]
             ELSE LET arr == [dim |-> <<h.dim1len, h.dim2len, h.dim3len, h.dim4len>>,
                              v |-> [k \in 1..num_voxels |->
                                       ElementAt(src.bytes, h.dtype, k - 1)]]
                  IN  [res |-> "Ok",
                       data |-> [mri_uchar |-> IF h.dtype = MRI_UCHAR THEN arr ELSE None,
                                 mri_float |-> IF h.dtype = MRI_FLOAT THEN arr ELSE None,
                                 mri_int   |-> IF h.dtype = MRI_INT THEN arr ELSE None,
                                 mri_short |-> IF h.dtype = MRI_SHORT THEN arr ELSE None],
                       pos |-> MGH_DATA_START + ElementSize(h.dtype) * num_voxels]

\* An f32 the affine derivation computes with: an integer of magnitude at most
\* 2^24, on which f32 arithmetic is exact, or any other float (NaN, infinite,
\* fractional or larger), of which only that much is kept
ExactF32(n) == [exact |-> TRUE, v |-> n]

OtherF32 == [exact |-> FALSE, v |-> 0]

\* the largest magnitude up to which every integer is an f32
F32_EXACT_LIMIT == 16777216

AbsInt(n) == IF n < 0 THEN 0 - n ELSE n

\* f32::from_bits of the 32 bits read by read_f32: sign, 8 exponent bits, 23
\* fraction bits
F32FromBits(bits) ==
    LET b == IF bits < 0 THEN bits - MinI32 ELSE bits
        e == b \div 8388608
        full == 8388608 + (b % 8388608)
        shift == 150 - e
    IN  IF b = 0 THEN ExactF32(0)
        ELSE IF e = 151 /\ full = 8388608
        THEN ExactF32(IF bits < 0 THEN 0 - F32_EXACT_LIMIT ELSE F32_EXACT_LIMIT)
        ELSE IF e < 127 \/ e > 150 THEN OtherF32
        ELSE IF full % (2 ^ shift) # 0 THEN OtherF32
        ELSE ExactF32(IF bits < 0 THEN 0 - (full \div (2 ^ shift)) ELSE full \div (2 ^ shift))

\* `x as f32` of an i32
I32AsF32(x) == IF x = MinI32 \/ AbsInt(x) > F32_EXACT_LIMIT THEN OtherF32 ELSE ExactF32(x)

\* `x / 2` on i32: the quotient truncated towards zero
I32Half(x) == IF x >= 0 THEN x \div 2 ELSE IF x = MinI32 THEN 0 - 1073741824 ELSE 0 - ((0 - x) \div 2)

\* f32 `*`, `+`, `-`
MulF32(a, b) ==
    IF ~a.exact \/ ~b.exact THEN OtherF32
    ELSE IF a.v = 0 \/ b.v = 0 THEN ExactF32(0)
    ELSE IF AbsInt(a.v) > F32_EXACT_LIMIT \div AbsInt(b.v) THEN OtherF32
    ELSE ExactF32(a.v * b.v)

AddF32(a, b) ==
    IF ~a.exact \/ ~b.exact THEN OtherF32
    ELSE IF AbsInt(a.v + b.v) > F32_EXACT_LIMIT THEN OtherF32
    ELSE ExactF32(a.v + b.v)

SubF32(a, b) == AddF32(a, IF b.exact THEN ExactF32(0 - b.v) ELSE b)

\* the sum over k of x[k] * y[k] for two vectors of three f32
Dot3(x, y) == AddF32(AddF32(MulF32(x[1], y[1]), MulF32(x[2], y[2])), MulF32(x[3], y[3]))

\* `.t()` of a square matrix held as a sequence of rows
NotTransposed(m) == m

Transposed(m) == [i \in 1..Len(m) |-> [j \in 1..Len(m) |-> m[j][i]]]

\* d: the zero matrix with the voxel sizes on the diagonal
VoxelSizeDiagonal(h) ==
    [i \in 1..3 |-> [j \in 1..3 |-> IF i = j THEN F32FromBits(h.delta[i]) ELSE ExactF32(0)]]

\* mdc_mat: the nine raw direction cosines as a row-major 3x3 matrix
mdc_mat(h) == [i \in 1..3 |-> [j \in 1..3 |-> F32FromBits(h.mdc_raw[3 * (i - 1) + j])]]

\* mdc_scaled = mdc_mat.dot(&d)
mdc_unscaled(h) == mdc_mat(h)

mdc_scaled(h) ==
    LET d == VoxelSizeDiagonal(h)
    IN  [i \in 1..3 |-> [j \in 1..3 |->
            Dot3(mdc_mat(h)[i], [k \in 1..3 |-> d[k][j]])]]

\* p_crs_c: the CRS indices of the center voxel
p_crs_c(h) ==
    << I32AsF32(I32Half(h.dim1len)), I32AsF32(I32Half(h.dim2len)), I32AsF32(I32Half(h.dim3len)) >>

\* p_xyz_0 = p_xyz_c - mdc_scaled.t().dot(&p_crs_c)
p_xyz_0(h) ==
    LET st == Transposed(mdc_scaled(h))
    IN  [i \in 1..3 |-> SubF32(F32FromBits(h.p_xyz_c[i]), Dot3(st[i], p_crs_c(h)))]

\* `self.is_ras_good != 1 as i16`: no matrix is computed
Vox2RasRefusesIfZero(is_ras_good) == is_ras_good = 0

Vox2RasRefuses(is_ras_good) == is_ras_good # 1

\* FsMghHeader::vox2ras: the error, or the 4x4 matrix as a sequence of rows
vox2ras(h) ==
    IF Vox2RasRefuses(h.is_ras_good)
    THEN [res |-> "NoRasInformationInHeader", m |-> None]
    ELSE LET m == [i \in 1..4 |-> [j \in 1..4 |->
                     IF i <= 3 /\ j <= 3 THEN mdc_scaled(h)[i][j]
                     ELSE IF i = 4 /\ j <= 3 THEN p_xyz_0(h)[j]
                     ELSE IF i = 4 /\ j = 4 THEN ExactF32(1)
                     ELSE ExactF32(0)]]
         IN  [res |-> "Ok", m |-> Transposed(m)]

\* Inputs of the volume decoder
Zeros(n) == [i \in 1..n |-> 0]

I16ToBytes(n) == << (n \div 256) % 256, n % 256 >>

\* spacing 1,1,1; cosines -1,0,0, 0,0,-1, 0,1,0; center 0,2,-2 (as f32 bits)
MghCalibration ==
    WordsToBytes(<<1065353216, 1065353216, 1065353216,
                   -1082130432, 0, 0, 0, 0, -1082130432, 0, 1065353216, 0,
                   0, 1073741824, -1073741824>>)

\* spacing 2,1,3; cosines 1,2,0, 0,1,0, -1,0,1; center 1,0,-1 (as f32 bits)
MghCalibrationScaled ==
    WordsToBytes(<<1073741824, 1065353216, 1077936128,
                   1065353216, 1073741824, 0, 0, 1065353216, 0, -1082130432, 0, 1065353216,
                   1065353216, 0, -1082130432>>)

MghPayloadBytes == [i \in 1..(4 * (MaxVoxels + 1)) |-> 255 - i]

\* the 284 header bytes: seven i32, the i16 flag, 60 bytes where the calibration
\* goes, and the unused rest
MghHeaderBytes(version, dims, dtype, flag, ras) ==
    WordsToBytes(<<version>> \o dims \o <<dtype, 0>>) \o I16ToBytes(flag) \o ras
        \o Zeros(MGH_DATA_START - 90)

MghDims ==
    { <<n, 1, 1, 1>> : n \in 0..MaxVoxels } \cup { <<1, 1, n, 1>> : n \in 2..MaxVoxels }
    \cup { <<-1, 1, 1, 1>>, <<-1, -1, 1, 1>>, <<65536, 65536, 1, 1>> }

MghDtypes == { MRI_UCHAR, MRI_INT, MRI_FLOAT, MRI_SHORT, 2, 99 }
MghFlags == { 0, 1, -1 }
MghPayloadLengths == { 0, 1, 2, 4, 4 * MaxVoxels }
MghCuts == { 0, 3, 4, 10, 29, 30, 60, 90, 283 }

MghContents ==
    { MghHeaderBytes(1, dims, dtype, flag, ras) \o SubSeq(MghPayloadBytes, 1, n) :
        dims \in MghDims, dtype \in MghDtypes, flag \in MghFlags,
        ras \in { Zeros(60), MghCalibration, MghCalibrationScaled },
        n \in MghPayloadLengths }
    \cup { MghHeaderBytes(version, <<1, 1, 1, 1>>, MRI_UCHAR, 1, MghCalibration) \o <<7>> :
             version \in { 0, 2, 16777216 } }
    \cup { SubSeq(MghHeaderBytes(version, <<1, 1, 1, 1>>, dtype, flag, MghCalibration), 1, k) :
             version \in { 1, 2 }, dtype \in { MRI_UCHAR, 99 }, flag \in { 0, 1 },
             k \in MghCuts }

\* a file named *.mgz holds a gzip stream or not; a file with another name is read raw
MghFiles ==
    { <<g, c>> : g \in BOOLEAN, c \in MghContents }
    \cup { <<TRUE, GzEncode(c)>> : c \in MghContents }

InitMgh ==
    /\ \E f \in MghFiles : gz = f[1] /\ file = f[2]
    /\ overflowChecks \in BOOLEAN
    /\ pc = "Version"
    /\ pos = 0
    /\ hdr = FsMghHeaderDefault
    /\ hdr_res = "none"
    /\ mesh = NoMesh
    /\ data = NoMghData
    /\ label = EmptyLabel
    /\ hdr_num_entries = 0
    /\ outcome = "running"
    /\ pass = 1
    /\ first = None
    /\ ret = None
    /\ annot = NoAnnot

\* what no step of the volume decoder touches
MghUnused == <<gz, file, overflowChecks, mesh, label, hdr_num_entries, pass, first, ret,
               annot>>

\* FsMghHeader::from_reader: mgh_format_version and its check (an Err of the header
\* reader is what FsMgh::from_file returns)
MghReadVersion ==
    /\ pc = "Version"
    /\ LET src == ByteSource(file, gz) IN
       IF ~src.ok \/ ~CanRead(src.bytes, 0, 4)
       THEN /\ hdr_res' = "Io" /\ outcome' = "Io" /\ pc' = "Done"
            /\ pos' = IF src.ok THEN Len(src.bytes) ELSE 0
            /\ UNCHANGED hdr
       ELSE /\ hdr' = [hdr EXCEPT !.mgh_format_version = WordAt(src.bytes, 0)]
            /\ pos' = 4
            /\ IF MghVersionOk(WordAt(src.bytes, 0))
               THEN pc' = "Fields" /\ UNCHANGED <<hdr_res, outcome>>
               ELSE /\ hdr_res' = "InvalidFsMghFormat"
                    /\ outcome' = "InvalidFsMghFormat"
                    /\ pc' = "Done"
    /\ UNCHANGED data
    /\ UNCHANGED MghUnused

\* FsMghHeader::from_reader: the four dimensions, dtype, dof, is_ras_good, and the
\* three calibration fields set to NaN
MghReadFields ==
    /\ pc = "Fields"
    /\ LET s == ByteSource(file, gz).bytes IN
       IF ~CanRead(s, pos, 26)
       THEN /\ hdr_res' = "Io" /\ outcome' = "Io" /\ pc' = "Done"
            /\ pos' = Len(s)
            /\ UNCHANGED hdr
       ELSE /\ hdr' = [hdr EXCEPT !.dim1len = WordAt(s, 4), !.dim2len = WordAt(s, 8),
                                  !.dim3len = WordAt(s, 12), !.dim4len = WordAt(s, 16),
                                  !.dtype = WordAt(s, 20), !.dof = WordAt(s, 24),
                                  !.is_ras_good = I16At(s, 28),
                                  !.delta = <<F32_NAN, F32_NAN, F32_NAN>>,
                                  !.mdc_raw = [i \in 1..9 |-> F32_NAN],
                                  !.p_xyz_c = <<F32_NAN, F32_NAN, F32_NAN>>]
            /\ pos' = pos + 26
            /\ pc' = "Ras"
            /\ UNCHANGED <<hdr_res, outcome>>
    /\ UNCHANGED data
    /\ UNCHANGED MghUnused

\* FsMghHeader::from_reader: the calibration fields when is_ras_good is 1, and Ok(hdr)
MghReadRas ==
    /\ pc = "Ras"
    /\ LET s == ByteSource(file, gz).bytes IN
       IF ~RasGood(hdr.is_ras_good)
       THEN hdr_res' = "Ok" /\ pc' = "Data" /\ UNCHANGED <<hdr, pos, outcome>>
       ELSE IF ~CanRead(s, pos, 60)
       THEN /\ hdr_res' = "Io" /\ outcome' = "Io" /\ pc' = "Done"
            /\ pos' = Len(s)
            /\ UNCHANGED hdr
       ELSE /\ hdr' = [hdr EXCEPT !.delta = ReadWords(s, pos, 3),
                                  !.mdc_raw = ReadWords(s, pos + 12, 9),
                                  !.p_xyz_c = ReadWords(s, pos + 48, 3)]
            /\ pos' = pos + 60
            /\ hdr_res' = "Ok"
            /\ pc' = "Data"
            /\ UNCHANGED outcome
    /\ UNCHANGED data
    /\ UNCHANGED MghUnused

\* FsMgh::from_file after the header: the file is opened again and
\* data_from_reader reads it from the start
MghReadData ==
    /\ pc = "Data"
    /\ LET r == data_from_reader(ByteSource(file, gz), hdr, overflowChecks) IN
       /\ outcome' = r.res
       /\ data' = r.data
       /\ pos' = r.pos
    /\ pc' = "Done"
    /\ UNCHANGED <<hdr, hdr_res>>
    /\ UNCHANGED MghUnused

\* FsMghHeader::vox2ras on the header that was read (FsMgh::vox2ras forwards to it)
MghVox2Ras ==
    /\ pc = "Done" /\ hdr_res = "Ok" /\ ret = None
    /\ ret' = vox2ras(hdr)
    /\ UNCHANGED <<gz, file, overflowChecks, pc, pos, hdr, hdr_res, mesh, data, label,
                   hdr_num_entries, outcome, pass, first, annot>>

NextMgh ==
    \/ MghReadVersion
    \/ MghReadFields
    \/ MghReadRas
    \/ MghReadData
    \/ MghVox2Ras

SpecMgh == InitMgh /\ [][NextMgh]_vars

----------------------------------------------------------------------------
(* Properties of the volume codec *)

MghReturned == pc = "Done"

MghStream == ByteSource(file, gz)

\* C18: a volume input whose first big-endian i32 is not 1 makes header decoding
\* fail with InvalidFormat right after that integer: nothing more is read, and no
\* dimension, data type or calibration field is set.
C18_VersionCheckedFirst ==
    (MghStream.ok /\ CanRead(MghStream.bytes, 0, 4) /\ WordAt(MghStream.bytes, 0) # 1
       /\ pc # "Version")
    => /\ MghReturned
       /\ hdr_res = "InvalidFsMghFormat"
       /\ outcome = "InvalidFsMghFormat"
       /\ pos = 4
       /\ hdr = [FsMghHeaderDefault EXCEPT !.mgh_format_version = WordAt(MghStream.bytes, 0)]

\* C18 witness: a stream of exactly the four bytes of the integer 2 was rejected
\* as an invalid format
C18_Witness ==
    /\ MghReturned /\ outcome = "InvalidFsMghFormat"
    /\ MghStream.ok /\ Len(MghStream.bytes) = 4
    /\ WordAt(MghStream.bytes, 0) = 2

\* the 15 calibration values of the header, in stream order
CalibrationFields == hdr.delta \o hdr.mdc_raw \o hdr.p_xyz_c

\* C19: a successfully decoded header holds in spacing, direction cosines and
\* center the 15 values of the stream exactly when the 16-bit flag is 1 (60 bytes
\* read after the flag); for any other flag no calibration byte is read and the
\* 15 fields are NaN.
C19_CalibrationIffFlag ==
    hdr_res = "Ok"
    => LET s == MghStream.bytes
           flag == I16At(s, 28)
       IN  /\ hdr.is_ras_good = flag
           /\ flag = 1
                => /\ CanRead(s, 30, 60)
                   /\ CalibrationFields = ReadWords(s, 30, 15)
                   /\ pc = "Data" => pos = 90
           /\ flag # 1
                => /\ \A i \in 1..15 : CalibrationFields[i] = F32_NAN
                   /\ Len(CalibrationFields) = 15
                   /\ pc = "Data" => pos = 30

\* C19 witness: a header with flag -1 was decoded from a stream that holds
\* calibration values after the flag; the fields are NaN
C19_Witness ==
    /\ hdr_res = "Ok" /\ pc = "Data"
    /\ hdr.is_ras_good = -1
    /\ CanRead(MghStream.bytes, 30, 60)
    /\ ReadWords(MghStream.bytes, 30, 3) = <<1065353216, 1065353216, 1065353216>>
    /\ hdr.delta = <<F32_NAN, F32_NAN, F32_NAN>>

\* the typed payload fields that are present
PresentFields == { f \in {"mri_uchar", "mri_float", "mri_int", "mri_short"} : data[f] # None }

\* C20: payload decoding picks the element type from the dtype tag alone: 0 u8,
\* 1 i32, 3 f32, 4 i16, a success leaving exactly that one typed field present;
\* any other tag fails with UnsupportedDataType and returns no payload.
C20_DtypeDispatch ==
    (MghReturned /\ hdr_res = "Ok")
    => /\ outcome = "Ok"
            => PresentFields = { CASE hdr.dtype = 0 -> "mri_uchar" [] hdr.dtype = 1 -> "mri_int"
                                   [] hdr.dtype = 3 -> "mri_float" [] hdr.dtype = 4 -> "mri_short"
                                   [] OTHER -> "none" }
       /\ hdr.dtype \notin {0, 1, 3, 4}
            => outcome = "UnsupportedMriDataTypeInMgh" /\ PresentFields = {}

\* the mathematical product of four non-negative dimensions: its value when it
\* fits an i32, and otherwise only that it is larger
ExactProduct(d) ==
    IF \E i \in 1..4 : d[i] = 0 THEN [big |-> FALSE, v |-> 0]
    ELSE LET p1 == MulI32(d[1], d[2], TRUE)
             p2 == IF p1.panic THEN p1 ELSE MulI32(p1.v, d[3], TRUE)
             p3 == IF p2.panic THEN p2 ELSE MulI32(p2.v, d[4], TRUE)
         IN  [big |-> p3.panic, v |-> IF p3.panic THEN 0 ELSE p3.v]

\* the decoded payload array of the one typed field that is present
PresentArray == data[CHOOSE f \in PresentFields : TRUE]

\* C21: for a header with four non-negative dimensions and a supported tag, the
\* payload is read from byte offset 284 of the (decompressed) stream whatever the
\* calibration flag is, and the number of elements read is the mathematical
\* product dim1*dim2*dim3*dim4, also when that product exceeds the i32 range
\* (a stream that holds fewer elements ends the read with an I/O error).
C21_PayloadCount ==
    (MghReturned /\ hdr_res = "Ok"
       /\ hdr.dim1len >= 0 /\ hdr.dim2len >= 0 /\ hdr.dim3len >= 0 /\ hdr.dim4len >= 0
       /\ hdr.dtype \in {MRI_UCHAR, MRI_INT, MRI_FLOAT, MRI_SHORT})
    => LET s == MghStream.bytes
           n == ExactProduct(<<hdr.dim1len, hdr.dim2len, hdr.dim3len, hdr.dim4len>>)
           held == IF Len(s) < MGH_DATA_START THEN -1
                   ELSE (Len(s) - MGH_DATA_START) \div ElementSize(hdr.dtype)
       IN  /\ outcome \in {"Ok", "Io"}
           /\ outcome = "Ok"
                <=> (~n.big /\ held >= n.v)
           /\ outcome = "Ok"
                => /\ Len(PresentArray.v) = n.v
                   /\ \A k \in 1..n.v :
                        PresentArray.v[k] = ElementAt(s, hdr.dtype, k - 1)

\* vox2ras was called on the decoded header
Vox2RasCalled == ret # None

\* C22: vox2ras on a header whose calibration flag is not 1 fails with
\* NoRasInformationInHeader (the NoCalibrationData kind) and returns no matrix; on
\* a header whose flag is 1 it returns a matrix of four rows of four entries.
C22_Vox2RasNeedsFlag ==
    Vox2RasCalled
    => /\ hdr.is_ras_good # 1
            => ret.res = "NoRasInformationInHeader" /\ ret.m = None
       /\ hdr.is_ras_good = 1
            => /\ ret.res = "Ok"
               /\ Len(ret.m) = 4
               /\ \A i \in 1..4 : Len(ret.m[i]) = 4

\* C22 witness: vox2ras was refused for a header decoded with flag -1
C22_Witness ==
    /\ Vox2RasCalled /\ ret.res = "NoRasInformationInHeader"
    /\ hdr.is_ras_good = -1
    /\ I16At(MghStream.bytes, 28) = -1

\* the header's spacing, direction cosines (row-major) and center as floats
HdrSpacing == [i \in 1..3 |-> F32FromBits(hdr.delta[i])]
HdrCosines == [i \in 1..3 |-> [j \in 1..3 |-> F32FromBits(hdr.mdc_raw[3 * (i - 1) + j])]]
HdrCenter == [i \in 1..3 |-> F32FromBits(hdr.p_xyz_c[i])]

\* (dim1/2, dim2/2, dim3/2) with truncating integer division
CenterVoxel == << I32Half(hdr.dim1len), I32Half(hdr.dim2len), I32Half(hdr.dim3len) >>

\* a matrix was returned for a header whose calibration values are bounded
\* integers, and every entry of it is an integer computed exactly
ExactMatrixReturned ==
    /\ Vox2RasCalled /\ ret.res = "Ok"
    /\ \A i \in 1..3 : HdrSpacing[i].exact /\ HdrCenter[i].exact
    /\ \A i \in 1..3 : \A j \in 1..3 : HdrCosines[i][j].exact
    /\ \A i \in 1..4 : \A j \in 1..4 : ret.m[i][j].exact

\* C23: for a calibrated header with bounded integer spacing, cosines, center and
\* dimensions, the matrix returned by vox2ras times the column vector
\* (dim1/2, dim2/2, dim3/2, 1) is (cx, cy, cz, 1), the header's stored center.
C23_CenterVoxelMapsToCenter ==
    ExactMatrixReturned
    => LET c == CenterVoxel
           row(i) == ret.m[i][1].v * c[1] + ret.m[i][2].v * c[2] + ret.m[i][3].v * c[3]
                       + ret.m[i][4].v
       IN  /\ \A i \in 1..3 : row(i) = HdrCenter[i].v
           /\ row(4) = 1

\* C23 witness: a matrix was returned for a header with spacing 2,1,3,
\* non-symmetric cosines and center voxel (1,0,0)
C23_Witness ==
    /\ ExactMatrixReturned
    /\ HdrSpacing = <<ExactF32(2), ExactF32(1), ExactF32(3)>>
    /\ HdrCosines[1][2] # HdrCosines[2][1]
    /\ CenterVoxel = <<1, 0, 0>>

\* S = M * D for the header's cosines M and spacing D, in integers
ScaledCosines == [i \in 1..3 |-> [j \in 1..3 |-> HdrCosines[i][j].v * HdrSpacing[j].v]]

\* center_physical - transpose(S) * center_voxel
Origin ==
    [i \in 1..3 |->
        HdrCenter[i].v - (ScaledCosines[1][i] * CenterVoxel[1]
                            + ScaledCosines[2][i] * CenterVoxel[2]
                            + ScaledCosines[3][i] * CenterVoxel[3])]

\* the last column is (origin, 1) and the last row is (0, 0, 0, 1)
LastColumnAndRow ==
    /\ \A i \in 1..3 : ret.m[i][4].v = Origin[i]
    /\ \A j \in 1..3 : ret.m[4][j].v = 0
    /\ ret.m[4][4].v = 1

\* C26 as stated: the returned matrix has S = M * D as its upper-left 3x3 block,
\* (origin, 1) as its last column and (0, 0, 0, 1) as its last row.
C26_AffineAsStated ==
    ExactMatrixReturned
    => /\ \A i \in 1..3 : \A j \in 1..3 : ret.m[i][j].v = ScaledCosines[i][j]
       /\ LastColumnAndRow

\* C26: the returned matrix has the transpose of S = M * D as its upper-left 3x3
\* block, (origin, 1) with origin = center_physical - transpose(S) * center_voxel
\* as its last column, and (0, 0, 0, 1) as its last row.
C26_Affine ==
    ExactMatrixReturned
    => /\ \A i \in 1..3 : \A j \in 1..3 : ret.m[i][j].v = ScaledCosines[j][i]
       /\ LastColumnAndRow

\* C26 witness: a matrix was returned for a header with spacing 2,1,3 and center
\* voxel (0,0,1), whose S is not symmetric
C26_Witness ==
    /\ ExactMatrixReturned
    /\ HdrSpacing = <<ExactF32(2), ExactF32(1), ExactF32(3)>>
    /\ CenterVoxel = <<0, 0, 1>>
    /\ ScaledCosines[1][2] # ScaledCosines[2][1]
    /\ ret.m[1][2].v = ScaledCosines[2][1]

----------------------------------------------------------------------------
(* Properties across the codecs *)

\* C24: mesh decoding (like scalar-field and volume decoding) wraps the byte
\* source in gzip decompression before any header byte is parsed exactly when the
\* file name ends in a compressed suffix: the magic it parses is the first three
\* bytes of the decompressed stream, and a compressed mesh file whose content is
\* a mesh file does not fail on its magic.
C24_MeshDecompressed ==
    LET src == ByteSource(file, gz) IN
    (pass = 1 /\ pc # "Start" /\ src.ok /\ Len(src.bytes) >= 3)
    => /\ hdr.surf_magic = SubSeq(src.bytes, 1, 3)
       /\ (SurfReturned /\ SurfMagicOk(SubSeq(src.bytes, 1, 3)))
            => hdr_res # "InvalidFsSurfaceFormat"

\* C25: a mesh input with a valid magic whose stream ends before 3*num_vertices
\* floats and 3*num_faces integers have been read makes read_surf return an I/O
\* error through its Result, with no partially built mesh; the caller is not
\* aborted.
C25_TruncatedMeshReturnsIo ==
    (SurfReturned /\ pass = 1 /\ ~gz /\ hdr_res = "Ok"
       /\ hdr.num_vertices \in 0..MaxWords /\ hdr.num_faces \in 0..MaxWords
       /\ Len(file) < SurfHeaderLen + 12 * hdr.num_vertices + 12 * hdr.num_faces)
    => /\ outcome = "Io"
       /\ mesh = NoMesh

----------------------------------------------------------------------------
(* String readers: util.rs *)
(* The two readers applied to a byte stream that stands at position pos;      *)
(* hdr_num_entries is the `len` argument of the fixed-length reader.          *)

MaxBytes == 4

UtilAlphabet == { 0, 10, 65, 233 }

UtilStreams == UNION { [1..k -> UtilAlphabet] : k \in 0..MaxBytes }

InitUtil ==
    /\ gz = FALSE
    /\ file \in UtilStreams
    /\ overflowChecks = FALSE
    /\ pc = "Call"
    /\ pos \in { p \in 0..1 : p <= Len(file) }
    /\ hdr = None
    /\ hdr_res = "none"
    /\ mesh = NoMesh
    /\ data = <<>>
    /\ label = EmptyLabel
    /\ hdr_num_entries \in 0..(MaxBytes + 1)
    /\ outcome = "running"
    /\ pass = 1
    /\ first = None
    /\ ret = None
    /\ annot = NoAnnot

UtilUnused == <<gz, file, overflowChecks, hdr, hdr_res, mesh, data, label, hdr_num_entries,
                pass, first, annot>>

\* read_fixed_length_string(input, len)
UtilReadFixed ==
    /\ pc = "Call"
    /\ LET r == read_fixed_length_string(file, pos, hdr_num_entries) IN
       /\ ret' = [fn |-> "read_fixed_length_string", ok |-> r.ok, str |-> r.str,
                  start |-> pos]
       /\ pos' = r.pos
       /\ outcome' = IF r.ok THEN "Ok" ELSE "Io"
    /\ pc' = "Done"
    /\ UNCHANGED UtilUnused

\* read_fs_variable_length_string(input)
UtilReadVariable ==
    /\ pc = "Call"
    /\ LET r == read_fs_variable_length_string(file, pos) IN
       /\ ret' = [fn |-> "read_fs_variable_length_string", ok |-> r.ok, str |-> r.str,
                  start |-> pos]
       /\ pos' = r.pos
       /\ outcome' = IF r.ok THEN "Ok" ELSE "Io"
    /\ pc' = "Done"
    /\ UNCHANGED UtilUnused

NextUtil ==
    \/ UtilReadFixed
    \/ UtilReadVariable

SpecUtil == InitUtil /\ [][NextUtil]_vars

----------------------------------------------------------------------------
(* Properties of the string readers *)

UtilReturned(fn) == pc = "Done" /\ ret.fn = fn

\* C27: read_fixed_length_string(N), N >= 0, on a stream with at least N bytes
\* left consumes exactly N bytes and returns them in order as chars, leaving out
\* only the byte at position N-1 when it is zero (earlier zero bytes are kept); on
\* a stream with fewer than N bytes left it fails with an I/O error.
C27_FixedLengthString ==
    UtilReturned("read_fixed_length_string")
    => LET n == hdr_num_entries
           p == ret.start
       IN  IF CanRead(file, p, n)
           THEN /\ ret.ok /\ outcome = "Ok"
                /\ pos = p + n
                /\ ret.str = IF n > 0 /\ file[p + n] = 0
                             THEN SubSeq(file, p + 1, p + n - 1)
                             ELSE SubSeq(file, p + 1, p + n)
           ELSE ~ret.ok /\ outcome = "Io"

\* C27 witness: three bytes 0, 65, 0 were read with N = 3; the first zero is kept
\* and the last one left out
C27_Witness ==
    /\ UtilReturned("read_fixed_length_string") /\ ret.ok
    /\ hdr_num_entries = 3
    /\ SubSeq(file, ret.start + 1, ret.start + 3) = <<0, 65, 0>>
    /\ ret.str = <<0, 65>>
    /\ pos = ret.start + 3

\* the positions (from 1) at or after the start where two consecutive linefeeds begin
LinefeedPairs(s, p) == { i \in (p + 1)..(Len(s) - 1) : s[i] = 10 /\ s[i + 1] = 10 }

FirstPair(s, p) == CHOOSE i \in LinefeedPairs(s, p) : \A j \in LinefeedPairs(s, p) : i <= j

\* C28: on a stream that holds two consecutive 0x0A bytes,
\* read_fs_variable_length_string returns the bytes up to and including the first
\* such pair (both linefeeds included) and leaves the stream right after the pair.
C28_VariableLengthString ==
    (UtilReturned("read_fs_variable_length_string") /\ LinefeedPairs(file, ret.start) # {})
    => LET k == FirstPair(file, ret.start) IN
       /\ ret.ok /\ outcome = "Ok"
       /\ ret.str = SubSeq(file, ret.start + 1, k + 1)
       /\ pos = k + 1

\* C28 witness: of 65, 10, 10, 10 the first three bytes were returned and the
\* stream stands before the third linefeed
C28_Witness ==
    /\ UtilReturned("read_fs_variable_length_string") /\ ret.ok
    /\ file = <<65, 10, 10, 10>> /\ ret.start = 0
    /\ ret.str = <<65, 10, 10>>
    /\ pos = 3

----------------------------------------------------------------------------
(* Termination *)

\* a decode call that has not returned runs on: each of its steps is a read of
\* the next bytes of a finite file or a check, and nothing makes it wait
SpecSurfFair == SpecSurf /\ WF_vars(NextSurf)

\* C29: a decode call on a finite file terminates, and it ends by returning a
\* value or an error after consuming at most the file's bytes; a mesh whose info
\* line never holds two consecutive linefeeds ends with an I/O error at the end of
\* the input.
C29_DecodeReturns ==
    (pc = "Start") ~> (SurfReturned /\ outcome # "panic" /\ pos <= Len(file))

----------------------------------------------------------------------------
(* Acquisition of the byte source *)
(* FsMgh::from_file opens the path in FsMghHeader::from_file, which closes it   *)
(* on return, and opens it a second time for data_from_reader.  Another process *)
(* may replace the file between the two opens; `first` keeps what the header   *)
(* was read from.                                                              *)

\* what another process writes to the path: a volume of two u8 voxels or one of
\* one i32 voxel
MghRewrites ==
    { MghHeaderBytes(1, <<2, 1, 1, 1>>, MRI_UCHAR, 0, Zeros(60)) \o <<7, 8>>,
      MghHeaderBytes(1, <<1, 1, 1, 1>>, MRI_INT, 0, Zeros(60)) \o <<0, 0, 0, 9>> }

\* the file is replaced after the header reader returned Ok and before the
\* second File::open
MghFileRewritten ==
    /\ pc = "Data" /\ first = None
    /\ first' = [content |-> file]
    /\ \E c \in MghRewrites :
         /\ file' = IF gz THEN GzEncode(c) ELSE c
         /\ file' # file
    /\ UNCHANGED <<gz, overflowChecks, pc, pos, hdr, hdr_res, mesh, data, label,
                   hdr_num_entries, outcome, pass, ret, annot>>

NextMghShared ==
    \/ NextMgh
    \/ MghFileRewritten

SpecMghShared == InitMgh /\ [][NextMghShared]_vars

\* the bytes the header was read from
HeaderAcquisition == ByteSource(IF first = None THEN file ELSE first.content, gz)

\* C30: a decode call acquires its byte source once and holds it from header
\* parsing through payload parsing: the header and the payload of a decoded
\* volume come from the same acquisition of the file, also when another process
\* rewrites the file during the call.
C30_SingleAcquisition ==
    (MghReturned /\ outcome = "Ok")
    => /\ hdr.dim1len = WordAt(HeaderAcquisition.bytes, 4)
       /\ hdr.dtype = WordAt(HeaderAcquisition.bytes, 20)
       /\ data = data_from_reader(HeaderAcquisition, hdr, overflowChecks).data

====
